---- MODULE Spec2Model ----
(***************************************************************************)
(* A model of the VulnScan backend: the OpenVASScanner class               *)
(* (src/backend/scanner/openvas.py) and the Flask routes that call it      *)
(* (src/backend/routes/scanner_routes.py, src/routes/AI.py).               *)
(*                                                                         *)
(* XML elements are records whose fields hold the text of a child element, *)
(* or Absent when the child is missing.  Python None is NoneVal.  Error    *)
(* messages are sequences of the pieces an f-string joins.                 *)
(***************************************************************************)
EXTENDS Integers, Sequences, FiniteSets, TLC

\* ------------------------------------------------------------------ bounds
MaxEntries == 3      \* report elements in one get_reports response
MaxResults == 2      \* result elements in one get_report response
MaxPieces == 3       \* pieces a result's description is put together from
MaxHosts == 2        \* hosts in one convert_hosts_to_targets request
MaxTargets == 2      \* targets made through the create_target route
MaxUsers == 2        \* rows the users table is given, the first administrator included
MaxSchedules == 2    \* schedules the engine stores
MaxInterval == 2     \* the largest interval a create_schedule request asks for
MaxReports == 3      \* reports the engine stores
maxsize == 2         \* TTLCache(maxsize=100, ...), scaled down
ttl == 2             \* TTLCache(..., ttl=600), in ticks of the timer
MaxTime == 4         \* ticks the timer is followed for
MaxViewReports == 2  \* reports the engine is given while the aggregate is followed
MaxPosted == 2       \* results in one /ai/analyze_cve request

\* --------------------------------------------------------------- constants
Absent  == "<absent>"     \* a child element that is not in the response
NoneVal == "<None>"       \* Python None

Range(s) == {s[i] : i \in 1..Len(s)}

\* ------------------------------------------------------- engine responses
SuccessStatuses == {"200", "201", "202"}
FailureStatuses == {"400", "401", "404", "500"}

StatusText(s) ==
  CASE s = "200" -> "OK"
    [] s = "201" -> "OK, resource created"
    [] s = "202" -> "OK, request submitted"
    [] s = "400" -> "Invalid filter"
    [] s = "401" -> "Authenticate first"
    [] s = "404" -> "Failed to find resource"
    [] OTHER     -> "Internal error"

\* The root of a response: its status and status_text attributes, and whether
\* the payload the caller looks for (an id attribute, the element asked for)
\* is in it.  The engine sends no payload with an error status.
Response(s, found) == [status |-> s, text |-> StatusText(s), found |-> found]

Responses(ok) ==
  {Response(ok, f) : f \in BOOLEAN} \cup {Response(s, FALSE) : s \in FailureStatuses}

VARIABLES
  pc,               \* where the scanner operation in progress stands
  op,               \* the operation in progress
  sock,             \* self.connection's socket: "none", "open" or "closed"
  openSocks,        \* number of sockets open towards the engine
  authed,           \* whether the engine accepted the credentials on this socket
  log,              \* what the operation in progress did on the channel
  outcome,          \* how the last operation ended
  root,             \* get_reports_with_tasks: the report elements of the listing
  unique_reports,   \* get_reports_with_tasks: the reports kept, in dict order
  tasks_info,       \* get_reports_with_tasks: the tasks of get_tasks()
  filtered_reports, \* get_reports_with_tasks: the list being returned
  report_details,   \* get_reports_with_tasks: the last get_report_by_id() result
  translated,       \* the record a translator produced last
  schedules,        \* the schedule elements the engine stores
  listed,           \* the list get_schedules returned last
  targets,          \* the target elements the engine stores
  created,          \* the create_target calls the engine received
  hosts,            \* convert_hosts_to_targets: the hosts of the request
  existing_targets, \* convert_hosts_to_targets: what get_targets() returned
  remote,           \* the engine calls the last route handler made, in order
  reply,            \* the HTTP reply of the last route call
  users,            \* the rows of the users table
  last_id,          \* the number of rows the users table was ever given
  tokens,           \* the access tokens issued so far, by identity
  req,              \* the request being answered
  handled,          \* whether its handler body ran, and the token it issued
  reports,          \* the ids of the reports the engine stores
  served,           \* the report route answered last and what the engine said
  cache,            \* the TTLCache of get_reports_with_tasks, least recently used first
  now,              \* the cache's timer
  called,           \* the cached call that ended last, with the cache it found
  evictions,        \* entries pushed out for room whose time has not run out
  recency,          \* the keys in the cache by last read or write, oldest first
  threads,          \* the requests served at the same time, one per thread
  bound,            \* the socket self.connection holds, shared by the threads
  view,             \* the scanner call on the reports that ended last
  deleted,          \* the ids of the reports delete_report has removed
  posted,           \* /ai/analyze_cve: the results of the request
  responses         \* /ai/analyze_cve: the list the handler has built

scanVars  == <<pc, op, sock, openSocks, authed, log, outcome>>
aggVars   == <<root, unique_reports, tasks_info, filtered_reports, report_details>>
transVars == <<translated>>
schedVars == <<schedules, listed>>
convRest  == <<targets, created, hosts, existing_targets, remote>>
convVars  == <<convRest, reply>>
authVars  == <<users, last_id, tokens, req, handled>>
reportVars == <<reports, served>>
cacheVars == <<cache, now, called, evictions, recency>>
concVars  == <<threads, bound>>
viewVars  == <<view, deleted>>
aiVars    == <<posted, responses>>
restVars  == <<authVars, reportVars, cacheVars, concVars, viewVars, aiVars>>
vars == <<scanVars, aggVars, transVars, restVars, schedVars, convVars>>

NoOutcome ==
  [kind |-> "none", op |-> "none", exc |-> "none", msg |-> <<>>,
   status |-> "none", text |-> "none", value |-> "none"]

ScanInit ==
  /\ pc = "idle" /\ op = "none" /\ sock = "none" /\ openSocks = 0
  /\ authed = FALSE /\ log = <<>> /\ outcome = NoOutcome
AggInit ==
  /\ root = <<>> /\ unique_reports = <<>> /\ tasks_info = <<>>
  /\ filtered_reports = <<>> /\ report_details = NoneVal
TransInit == translated = [fn |-> "none", rec |-> NoneVal]
SchedInit == schedules = <<>> /\ listed = <<>>
ConvInit  ==
  /\ targets = <<>> /\ created = <<>> /\ hosts = <<>> /\ existing_targets = <<>>
  /\ remote = <<>>
  /\ reply = [status |-> 0, body |-> "none"]

AuthInit ==
  /\ users = {} /\ last_id = 0 /\ tokens = {}
  /\ req = [route |-> "none", cred |-> 0, email |-> "", password |-> "", role |-> ""]
  /\ handled = [ran |-> FALSE, token |-> 0]

NoValue == [filter |-> "", at |-> -1, whole |-> FALSE]
NoCall ==
  [key |-> <<>>, start |-> -1, hit |-> FALSE, raised |-> FALSE, value |-> NoValue,
   pre |-> <<>>, gone |-> {}, oldest |-> <<>>]

CacheInit ==
  /\ cache = <<>> /\ now = 0 /\ called = NoCall /\ evictions = {} /\ recency = <<>>

Threads == 1..2
NoResult == [kind |-> "none", exc |-> "none"]
IdleThread ==
  [op |-> "none", call |-> [form |-> "none", arg |-> ""], pc |-> 0, result |-> NoResult,
   hit |-> FALSE, whole |-> TRUE, value |-> NoValue, pre |-> {}, foreign |-> FALSE]
Unbound == [owner |-> 0, open |-> FALSE, authed |-> FALSE]

ConcInit ==
  /\ threads = [t \in Threads |-> IdleThread]
  /\ bound = Unbound

ReportInit ==
  /\ reports = {}
  /\ served = [route |-> "none", report_id |-> 0, format |-> "", held |-> FALSE, answer |-> "none"]

NoView ==
  [op |-> "none", kind |-> "none", exc |-> "none", hit |-> FALSE, ids |-> <<>>,
   listing |-> "none", tasks |-> "none", failing |-> 0, fetched |-> 0, stored |-> FALSE,
   id |-> 0]

ViewInit == view = NoView /\ deleted = {}
AiInit   == posted = <<>> /\ responses = <<>>

Init == ScanInit /\ AggInit /\ TransInit /\ SchedInit /\ ConvInit /\ AuthInit /\ ReportInit /\ CacheInit
        /\ ConcInit /\ ViewInit /\ AiInit

\* ===================================================== scanner operations
\* How an operation ends: it returns a value or raises an exception whose
\* message is the sequence of pieces the f-string joined.
Return(v)       == [kind |-> "return", exc |-> "none", msg |-> <<>>, value |-> v]
Raise(exc, msg) == [kind |-> "raise", exc |-> exc, msg |-> msg, value |-> "none"]

\* f"Error {status}: {status_text}"
ErrorMsg(r) == <<"Error", r.status, r.text>>
\* str(e) of the error the channel raises when the engine cannot be reached
TransportText == "connection lost"

\* if response.attrib.get('status') == '200': ... else: raise ValueError(...)
RaiseUnless(ok, r, v) ==
  IF r.status = ok THEN Return(v) ELSE Raise("ValueError", ErrorMsg(r))

\* the element looked up decides: found, or raise with the response's status
RaiseIfMissing(r, v) ==
  IF r.found THEN Return(v) ELSE Raise("ValueError", ErrorMsg(r))

\* no id / no config in the response: the status when there is one
RaiseIfNoId(r, v, generic) ==
  IF r.found THEN Return(v)
  ELSE IF r.status # "" /\ r.text # "" THEN Raise("ValueError", ErrorMsg(r))
  ELSE Raise("ValueError", <<generic>>)

\* if response.attrib.get('status') == '400': raise; everything else is parsed
RaiseOn400(r, v) ==
  IF r.status = "400" THEN Raise("ValueError", ErrorMsg(r)) ELSE Return(v)

\* the response is parsed whatever its status
NoStatusCheck(r, v) == Return(v)

\* return {"status": ..., "status_text": ...}
StatusDict(r) == Return("status_dict")

\* try: if status != '200': raise ValueError(f"Error ...")
\* except Exception: raise ValueError(f"Error {status}: {status_text}") again
Rewrap200(r, v) ==
  IF r.status = "200" THEN Return(v)
  ELSE Raise("ValueError", <<"Error", r.status, r.text>>)

\* except Exception as e: raise ValueError(f"<prefix> {str(e)}")
WrapPrefix(prefix, r, v) ==
  IF r.status = "200" THEN Return(v)
  ELSE Raise("ValueError", <<prefix>> \o ErrorMsg(r))

\* schedule_id = response.xpath('//create_schedule_response/@id')[0]
CreateScheduleResult(r) ==
  IF r.found THEN Return("schedule_id")
  ELSE Raise("IndexError", <<"list index out of range">>)

\* task = response.find('task'); if task is None: raise, wrapped by the except
GetTaskResult(r) ==
  IF r.found THEN Return("task_info")
  ELSE Raise("ValueError", <<"Failed to get task:",
                             "Failed to get task: Task element not found in response">>)

\* original_user is None: raise "User not found."; the create_user response
\* that follows is not looked at
CloneUserResult(r) ==
  IF r.found THEN Return("cloned") ELSE Raise("ValueError", <<"User not found.">>)

Eq200Ops    == {"get_roles", "get_users", "modify_user", "delete_user"}
MissingOps  == {"get_user", "get_report_by_id"}
NoIdOps     == {"get_configs", "create_target", "create_task"}
Only400Ops  == {"get_hosts", "get_scanners", "get_portlists", "get_tasks", "get_results"}
NoCheckOps  == {"get_targets", "get_reports", "get_schedules"}
DictOps     == {"start_task", "stop_task", "resume_task", "get_task_status",
                "create_alert", "get_alerts", "modify_alert", "delete_alert"}
RewrapOps   == {"delete_host", "delete_target", "delete_task", "modify_task",
                "delete_report"}
PrefixOps   == {"modify_target", "modify_schedule", "delete_schedule"}
OtherOps    == {"create_user", "create_schedule", "get_task", "clone_user"}

SimpleOps == Eq200Ops \cup MissingOps \cup NoIdOps \cup Only400Ops \cup NoCheckOps
             \cup DictOps \cup RewrapOps \cup PrefixOps \cup OtherOps
Aggregate == "get_reports_with_tasks"
PublicOps == SimpleOps \cup {"authenticate", Aggregate}

\* the status the engine answers an accepted command with
OkStatus(o) ==
  IF o \in {"create_user", "create_target", "create_task", "create_schedule",
            "create_alert"} THEN "201"
  ELSE IF o \in {"start_task", "stop_task", "resume_task"} THEN "202"
  ELSE "200"

Prefix(o) ==
  CASE o = "modify_target"   -> "Error modifying target:"
    [] o = "modify_schedule" -> "Unexpected error occurred:"
    [] o = "delete_schedule" -> "Unexpected error:"
    [] o = "get_task"        -> "Failed to get task:"
    [] o = "get_targets"     -> "Error retrieving targets:"
    [] o = "create_alert"    -> "Failed to create alert:"
    [] o = "get_alerts"      -> "Failed to get alerts:"
    [] o = "modify_alert"    -> "Failed to modify alert:"
    [] OTHER                 -> "Failed to delete alert:"

\* What operation o makes of the response r to its remote call.
Handle(o, r) ==
  CASE o \in Eq200Ops   -> RaiseUnless("200", r, o)
    [] o = "create_user" -> RaiseUnless("201", r, o)
    [] o \in MissingOps -> RaiseIfMissing(r, o)
    [] o = "get_configs" -> RaiseIfNoId(r, o, "Failed to retrieve scan configurations")
    [] o = "create_target" ->
         RaiseIfNoId(r, o, "Failed to retrieve target ID and no detailed error information available.")
    [] o = "create_task" -> RaiseIfNoId(r, o, "Failed to create task or retrieve task ID")
    [] o \in Only400Ops -> RaiseOn400(r, o)
    [] o \in NoCheckOps -> NoStatusCheck(r, o)
    [] o \in DictOps    -> StatusDict(r)
    [] o \in RewrapOps  -> Rewrap200(r, o)
    [] o \in PrefixOps  -> WrapPrefix(Prefix(o), r, o)
    [] o = "create_schedule" -> CreateScheduleResult(r)
    [] o = "get_task"   -> GetTaskResult(r)
    [] OTHER            -> CloneUserResult(r)

\* What operation o does when its remote call raises instead of answering.
\* The except blocks of delete_host, delete_target, delete_task and modify_task
\* read `response`, which was never bound; delete_report asks locals() first.
HandleTransport(o) ==
  CASE o \in {"delete_host", "delete_target", "delete_task", "modify_task"} ->
         Raise("UnboundLocalError", <<"response">>)
    [] o = "delete_report" -> Raise("ValueError", <<"Error", "unknown", TransportText>>)
    [] o \in PrefixOps \cup {"get_task", "get_targets", "create_alert", "get_alerts",
                             "modify_alert", "delete_alert"} ->
         Raise("ValueError", <<Prefix(o), TransportText>>)
    [] OTHER -> Raise("GvmError", <<TransportText>>)

\* ------------------------------------------------------------ connection
\* Gmp.__enter__: the shared connection object opens a new socket and binds
\* it; a socket it still held is dropped and closed by its finalizer.
Connect(s, n) == [sock |-> "open", n |-> IF s = "open" THEN n ELSE n + 1]
\* Gmp.__exit__: the connection closes the socket it holds.
Disconnect(s, n) == [sock |-> "closed", n |-> IF s = "open" THEN n - 1 ELSE n]
\* WithExit releasing only when the body returns
WithExitOnReturn(kind, s, n) ==
  IF kind = "return" THEN Disconnect(s, n) ELSE [sock |-> s, n |-> n]

\* leaving `with self._connect() as gmp:` by return or by exception
WithExit(kind, s, n) == Disconnect(s, n)

\* The operation in progress ends with outcome o, r being the last response.
FinishFrom(o, r, entries, s, n) ==
  LET c == WithExit(o.kind, s, n) IN
  /\ outcome' = [kind |-> o.kind, op |-> op, exc |-> o.exc, msg |-> o.msg,
                 status |-> r.status, text |-> r.text, value |-> o.value]
  /\ sock' = c.sock /\ openSocks' = c.n
  /\ log' = log \o entries \o <<"disconnect">>
  /\ pc' = "done" /\ op' = "none" /\ authed' = FALSE

Finish(o, r, entries) == FinishFrom(o, r, entries, sock, openSocks)

NoResponse == [status |-> "none", text |-> "none", found |-> FALSE]
TransportError == Raise("GvmError", <<TransportText>>)

\* with self._connect() as gmp:
Enter(o) ==
  /\ pc = "idle"
  /\ LET c == Connect(sock, openSocks) IN
     /\ sock' = c.sock /\ openSocks' = c.n
  /\ pc' = "auth" /\ op' = o /\ authed' = FALSE
  /\ log' = <<"connect">> /\ outcome' = NoOutcome
  /\ UNCHANGED <<aggVars, transVars, restVars, schedVars, convVars>>

\* the socket cannot be connected: __enter__ raises, the body never runs
EnterFails(o) ==
  /\ pc = "idle"
  /\ sock' = "closed" /\ openSocks' = IF sock = "open" THEN openSocks - 1 ELSE openSocks
  /\ outcome' = [kind |-> "raise", op |-> o, exc |-> "GvmError",
                 msg |-> <<TransportText>>, status |-> "none", text |-> "none",
                 value |-> "none"]
  /\ log' = <<>> /\ pc' = "done"
  /\ UNCHANGED <<op, authed, aggVars, transVars, restVars, schedVars, convVars>>

\* the caller has the result or the exception; the call's frame is gone
Consume ==
  /\ pc = "done"
  /\ pc' = "idle" /\ log' = <<>> /\ outcome' = NoOutcome
  /\ root' = <<>> /\ unique_reports' = <<>> /\ tasks_info' = <<>>
  /\ filtered_reports' = <<>> /\ report_details' = NoneVal
  /\ UNCHANGED <<op, sock, openSocks, authed, transVars, restVars, schedVars, convVars>>

\* gmp.authenticate(self.username, self.password): the response is not read
Authenticate ==
  /\ pc = "auth"
  /\ \E ok \in BOOLEAN :
       LET r == IF ok THEN Response("200", TRUE) ELSE Response("400", FALSE) IN
       IF op = "authenticate"
       THEN Finish(Return(NoneVal), r, <<"authenticate">>)
       ELSE /\ authed' = ok /\ pc' = "call"
            /\ log' = Append(log, "authenticate")
            /\ UNCHANGED <<op, sock, openSocks, outcome>>
  /\ UNCHANGED <<aggVars, transVars, restVars, schedVars, convVars>>

\* the channel breaks during authenticate
AuthenticateFails ==
  /\ pc = "auth"
  /\ Finish(TransportError, NoResponse, <<>>)
  /\ UNCHANGED <<aggVars, transVars, restVars, schedVars, convVars>>

\* the remote call of a one-call operation and what the operation makes of it
Call ==
  /\ pc = "call" /\ op \in SimpleOps
  /\ \E r \in Responses(OkStatus(op)) :
       /\ ~authed => r.status \in FailureStatuses
       /\ Finish(Handle(op, r), r, <<op>>)
  /\ UNCHANGED <<aggVars, transVars, restVars, schedVars, convVars>>

CallFails ==
  /\ pc = "call" /\ op \in SimpleOps
  /\ Finish(HandleTransport(op), NoResponse, <<>>)
  /\ UNCHANGED <<aggVars, transVars, restVars, schedVars, convVars>>

\* ============================================================ translators
\* element.findtext(child, default=d)
FindText(v, d) == IF v = Absent THEN d ELSE v
\* element.findtext(child): None when the child is missing
FindTextNone(v) == IF v = Absent THEN NoneVal ELSE v
\* xpath('child/text()')[0] if xpath('child/text()') else d
XPathText(v, d) == IF v = Absent \/ v = "" THEN d ELSE v

\* ---- Free text (a description, a detail's value, a permission list) is a
\* sequence of one-character strings; <<>> is the empty text, which findtext
\* with default="" also gives for a missing child.
NA == <<"N", "/", "A">>
Digits == {"0", "1", "2", "3", "4", "5", "6", "7", "8", "9"}

IsDigitAt(s, i) == i <= Len(s) /\ s[i] \in Digits

RECURSIVE DigitRunEnd(_, _)
\* the last index of the run of digits that starts at i (i - 1 when none)
DigitRunEnd(s, i) == IF IsDigitAt(s, i) THEN DigitRunEnd(s, i + 1) ELSE i - 1

\* r'CVE-\d{4}-\d+' matched at index i: the index of its last character, or 0
CveMatchEnd(s, i) ==
  IF /\ i + 9 <= Len(s)
     /\ SubSeq(s, i, i + 3) = <<"C", "V", "E", "-">>
     /\ \A k \in (i + 4)..(i + 7) : s[k] \in Digits
     /\ s[i + 8] = "-"
     /\ s[i + 9] \in Digits
  THEN DigitRunEnd(s, i + 9)
  ELSE 0

RECURSIVE FindAllFrom(_, _)
\* re.findall: leftmost matches, scanned left to right, none overlapping
FindAllFrom(s, i) ==
  IF i > Len(s) THEN <<>>
  ELSE LET e == CveMatchEnd(s, i) IN
       IF e > 0 THEN <<SubSeq(s, i, e)>> \o FindAllFrom(s, e + 1)
       ELSE FindAllFrom(s, i + 1)

RECURSIVE FirstOccurrences(_, _)
FirstOccurrences(found, i) ==
  IF i > Len(found) THEN <<>>
  ELSE IF \E k \in 1..(i - 1) : found[k] = found[i]
       THEN FirstOccurrences(found, i + 1)
       ELSE <<found[i]>> \o FirstOccurrences(found, i + 1)

\* FindAllCve keeping one copy of every identifier
FindAllCveDistinct(description) ==
  FirstOccurrences(FindAllFrom(description, 1), 1)

\* cve_numbers = re.findall(r'CVE-\d{4}-\d+', description)
FindAllCve(description) == FindAllFrom(description, 1)

RECURSIVE SplitFrom(_, _, _, _)
\* str.split(sep): the pieces between the separators, empty pieces kept
SplitFrom(s, sep, i, cur) ==
  IF i > Len(s) THEN <<cur>>
  ELSE IF s[i] = sep THEN <<cur>> \o SplitFrom(s, sep, i + 1, <<>>)
  ELSE SplitFrom(s, sep, i + 1, Append(cur, s[i]))
Split(s, sep) == SplitFrom(s, sep, 1, <<>>)

RECURSIVE LocationPort(_, _)
\* the first detail named "location" gives the port; "N/A" when there is none
LocationPort(details, i) ==
  IF i > Len(details) THEN NA
  ELSE IF FindText(details[i].name, "") = "location"
       THEN Split(details[i].value, "/")[1]
       ELSE LocationPort(details, i + 1)

\* port = "N/A"; details_elements = result.find('.//details'); ...
Port(result) == LocationPort(result.details, 1)

\* one <result> of get_report_by_id
ResultData(result) ==
  LET description == result.description IN
  [id          |-> result.id,
   host        |-> FindText(result.host, ""),
   port        |-> Port(result),
   description |-> description,
   cve_numbers |-> FindAllCve(description),
   severity    |-> FindText(result.severity, ""),
   threat      |-> FindText(result.threat, "")]

\* analyze_cve: cve_numbers = result.get('cve_numbers', []);
\* if not cve_numbers: cve_numbers = ["unknown"]
Unknown == <<"u", "n", "k", "n", "o", "w", "n">>
AnalyzedCves(result) ==
  IF result.cve_numbers = <<>> THEN <<Unknown>> ELSE result.cve_numbers

\* "vulns_count": find('.//vulns/count').text if find(...) is not None else "0"
VulnsCountOrZero(v) == IF v = Absent THEN "0" ELSE IF v = "" THEN NoneVal ELSE v

\* task_id_element.get('id') if task_id_element is not None else "N/A"
TaskIdOf(v) == IF v = Absent THEN "N/A" ELSE v

\* get_targets
TargetData(t) ==
  [id |-> t.id, name |-> FindTextNone(t.name), comment |-> FindTextNone(t.comment),
   hosts |-> FindTextNone(t.hosts), exclude_hosts |-> FindTextNone(t.exclude_hosts),
   port_list |-> FindTextNone(t.port_list),
   creation_time |-> FindTextNone(t.creation_time),
   modification_time |-> FindTextNone(t.modification_time)]

\* get_alerts
AlertData(a) ==
  [id |-> a.id, name |-> FindTextNone(a.name), condition |-> FindTextNone(a.condition),
   event |-> FindTextNone(a.event), method |-> FindTextNone(a.method),
   comment |-> FindTextNone(a.comment),
   creation_time |-> FindTextNone(a.creation_time),
   modification_time |-> FindTextNone(a.modification_time)]

\* get_roles
RoleData(r) ==
  [id |-> r.id, name |-> FindText(r.name, ""), description |-> FindText(r.description, ""),
   permissions |-> Split(r.permissions, ","),
   creation_time |-> FindText(r.creation_time, ""),
   modification_time |-> FindText(r.modification_time, "")]

\* get_users
UserData(u) ==
  [id |-> u.id, name |-> FindText(u.name, ""),
   creation_time |-> FindText(u.creation_time, ""),
   modification_time |-> FindText(u.modification_time, ""),
   roles |-> [i \in 1..Len(u.roles) |->
                [id |-> u.roles[i].id, name |-> FindText(u.roles[i].name, "")]]]

\* get_tasks
TaskEntry(t) ==
  [id |-> XPathText(t.id, "N/A"), name |-> XPathText(t.name, "N/A"),
   status |-> XPathText(t.status, "N/A")]

\* get_task: the "status" key is written twice, the task's own status last
TaskInfo(r, t) ==
  LET NotAvailable == "Not available" IN
  [status_text |-> r.text,
   id |-> t.id, name |-> FindText(t.name, NotAvailable), comment |-> FindText(t.comment, NotAvailable),
   creation_time |-> FindText(t.creation_time, NotAvailable),
   modification_time |-> FindText(t.modification_time, NotAvailable),
   owner |-> IF ~t.owner.present THEN NotAvailable ELSE FindText(t.owner.name, NotAvailable),
   status |-> FindText(t.status, NotAvailable),
   progress |-> FindText(t.progress, NotAvailable),
   report_count |-> FindText(t.report_count, NotAvailable),
   last_report |->
     IF ~t.last_report.present
     THEN [id |-> NotAvailable, timestamp |-> NotAvailable, scan_start |-> NotAvailable, scan_end |-> NotAvailable]
     ELSE [id |-> t.last_report.id, timestamp |-> FindText(t.last_report.timestamp, NotAvailable),
           scan_start |-> FindText(t.last_report.scan_start, NotAvailable),
           scan_end |-> FindText(t.last_report.scan_end, NotAvailable)]]

\* get_reports
ReportListData(e) ==
  [id |-> e.id, name |-> FindText(e.name, ""),
   creation_time |-> FindText(e.creation_time, ""),
   modification_time |-> FindText(e.modification_time, ""),
   scan_run_status |-> FindText(e.scan_run_status, ""),
   vulns_count |-> VulnsCountOrZero(e.vulns),
   task_id |-> TaskIdOf(e.task)]

\* get_report_by_id, the report element found
ReportDetailData(e) ==
  [id |-> e.id, name |-> FindText(e.name, ""),
   creation_time |-> FindText(e.creation_time, ""),
   modification_time |-> FindText(e.modification_time, ""),
   scan_run_status |-> FindText(e.scan_run_status, ""),
   vulns_count |-> VulnsCountOrZero(e.vulns),
   task_id |-> TaskIdOf(e.task),
   results |-> [i \in 1..Len(e.results) |-> ResultData(e.results[i])]]

\* ================================================= get_reports_with_tasks
ReportIds == {"r1", "r2"}

\* the <report> elements a get_reports response can hold: any id with any
\* name, as a full element, as one with an empty count and no task, or as one
\* without a vulns/count child
ReportShapes ==
  {[vulns |-> "3", task |-> "t1"], [vulns |-> "", task |-> Absent],
   [vulns |-> Absent, task |-> "t1"]}

ReportElements ==
  {[id |-> i, name |-> n, creation_time |-> "c", modification_time |-> "m",
    scan_run_status |-> "Done", vulns |-> sh.vulns, task |-> sh.task] :
     i \in ReportIds, n \in {Absent, "n1", "n2"}, sh \in ReportShapes}

Listings == UNION {[1..n -> ReportElements] : n \in 0..MaxEntries}

\* the <task> elements a get_tasks response can hold
TaskLists ==
  {<<>>, <<[id |-> "t1", name |-> "scan", status |-> "Done"]>>,
   <<[id |-> "t1", name |-> Absent, status |-> Absent]>>}

\* the <result> elements of a report: the severity child may be missing
ResultElements ==
  {[id |-> "res", host |-> "10.0.0.5", description |-> <<>>, severity |-> sv,
    threat |-> "High", details |-> <<>>] : sv \in {Absent, "0.0", "3.5", "7.2"}}

ResultLists == UNION {[1..n -> ResultElements] : n \in 0..MaxResults}

\* report_element.find('.//vulns/count') is None: .text raises AttributeError
ReportDataRaises(e) == e.vulns = Absent

\* report_data of the listing loop; vulns_count is `.text or "0"`
ReportData(e) ==
  [id |-> e.id, name |-> FindText(e.name, ""),
   creation_time |-> FindText(e.creation_time, ""),
   modification_time |-> FindText(e.modification_time, ""),
   vulns_count |-> IF e.vulns = "" THEN "0" ELSE e.vulns,
   task_id |-> TaskIdOf(e.task)]

\* Merge with the later entry always stored over the earlier one
MergeLastWins(u, d) ==
  IF \E i \in 1..Len(u) : u[i].id = d.id
  THEN LET i == CHOOSE k \in 1..Len(u) : u[k].id = d.id IN [u EXCEPT ![i] = d]
  ELSE Append(u, d)

\* Merge with a replaced report taken out and put at the end
MergeToEnd(u, d) ==
  IF \E i \in 1..Len(u) : u[i].id = d.id
  THEN LET i == CHOOSE k \in 1..Len(u) : u[k].id = d.id IN
       IF u[i].name = "" /\ d.name # ""
       THEN Append(SelectSeq(u, LAMBDA x : x.id # d.id), d) ELSE u
  ELSE Append(u, d)

\* one turn of the listing loop on the dict unique_reports, kept as the
\* sequence of its values in insertion order (replacing a value keeps its place)
Merge(u, d) ==
  IF \E i \in 1..Len(u) : u[i].id = d.id
  THEN LET i == CHOOSE k \in 1..Len(u) : u[k].id = d.id IN
       IF u[i].name = "" /\ d.name # "" THEN [u EXCEPT ![i] = d] ELSE u
  ELSE Append(u, d)

RECURSIVE FoldReports(_, _, _)
FoldReports(listing, i, u) ==
  IF i > Len(listing) THEN u
  ELSE FoldReports(listing, i + 1, Merge(u, ReportData(listing[i])))

UniqueReports(listing) == FoldReports(listing, 1, <<>>)

\* float(): the severity texts the engine sends, in tenths; "" cannot be parsed
IsFloat(t) == t \in {"0.0", "3.5", "7.2"}
ParseFloat(t) == CASE t = "0.0" -> 0 [] t = "3.5" -> 35 [] OTHER -> 72

SeverityRaises(results) == \E i \in 1..Len(results) : ~IsFloat(results[i].severity)

MaxOf(S) == CHOOSE m \in S : \A x \in S : x <= m

\* HighestSeverity taking the first result's severity for the maximum
HighestSeverityFirst(results) ==
  IF results # <<>> THEN ParseFloat(results[1].severity) ELSE 0

\* max(float(result.get("severity", 0)) for result in report_results), else 0
HighestSeverity(results) ==
  IF results # <<>>
  THEN MaxOf({ParseFloat(results[i].severity) : i \in 1..Len(results)})
  ELSE 0

\* tasks_info.get(task_id, {}).get("name", "Not available")
TaskName(tasks, task_id) ==
  IF \E i \in 1..Len(tasks) : tasks[i].id = task_id
  THEN LET i == CHOOSE k \in 1..Len(tasks) :
                  tasks[k].id = task_id /\ \A j \in (k + 1)..Len(tasks) : tasks[j].id # task_id
       IN tasks[i].name
  ELSE "Not available"

\* the report with task_name and highest_severity set, as appended to the list
Updated(report, tasks, details) ==
  [id |-> report.id, name |-> report.name, creation_time |-> report.creation_time,
   modification_time |-> report.modification_time,
   vulns_count |-> report.vulns_count, task_id |-> report.task_id,
   task_name |-> TaskName(tasks, report.task_id),
   highest_severity |-> HighestSeverity(details.results)]

\* the sockets after a nested operation opened and closed its own `with`
AfterNested(kind) ==
  LET c == Connect(sock, openSocks) IN WithExit(kind, c.sock, c.n)

\* a nested operation that issues its call twice
NestedLogTwice(call) == <<"connect", "authenticate", call, call, "disconnect">>
\* a nested operation inside its own `with self._connect() as gmp:`
NestedLog(call) == <<"connect", "authenticate", call, "disconnect">>

\* response = gmp.get_reports(filter_string); the loop over its report elements
ListReports ==
  /\ pc = "call" /\ op = Aggregate
  /\ \E r \in Responses("200"), listing \in Listings :
       /\ ~authed => r.status \in FailureStatuses
       /\ r.found <=> listing # <<>>
       /\ IF \E i \in 1..Len(listing) : ReportDataRaises(listing[i])
          THEN /\ Finish(Raise("AttributeError",
                               <<"'NoneType' object has no attribute 'text'">>),
                         r, <<"get_reports">>)
               /\ UNCHANGED aggVars
          ELSE /\ root' = listing
               /\ unique_reports' = UniqueReports(listing)
               /\ pc' = "tasks"
               /\ log' = Append(log, "get_reports")
               /\ UNCHANGED <<op, sock, openSocks, authed, outcome, tasks_info,
                              filtered_reports, report_details>>
  /\ UNCHANGED <<transVars, restVars, schedVars, convVars>>

ListReportsFails ==
  /\ pc = "call" /\ op = Aggregate
  /\ Finish(TransportError, NoResponse, <<>>)
  /\ UNCHANGED <<aggVars, transVars, restVars, schedVars, convVars>>

\* tasks_info = {task["id"]: task for task in self.get_tasks()}
GetTasks ==
  /\ pc = "tasks"
  /\ \E r \in Responses("200"), tl \in TaskLists :
       /\ r.found <=> tl # <<>>
       /\ LET res == RaiseOn400(r, [i \in 1..Len(tl) |-> TaskEntry(tl[i])])
              c   == AfterNested(res.kind) IN
          IF res.kind = "raise"
          THEN /\ FinishFrom(res, r, NestedLog("get_tasks"), c.sock, c.n)
               /\ root' = <<>>
               /\ UNCHANGED <<unique_reports, tasks_info, filtered_reports,
                              report_details>>
          ELSE /\ tasks_info' = res.value
               /\ root' = <<>>
               /\ pc' = "loop"
               /\ sock' = c.sock /\ openSocks' = c.n
               /\ log' = log \o NestedLog("get_tasks")
               /\ UNCHANGED <<op, authed, outcome, unique_reports,
                              filtered_reports, report_details>>
  /\ UNCHANGED <<transVars, restVars, schedVars, convVars>>

\* the channel breaks inside the nested get_tasks()
GetTasksFails ==
  /\ pc = "tasks"
  /\ LET c == AfterNested("raise") IN
       FinishFrom(TransportError, NoResponse, <<"connect", "disconnect">>, c.sock, c.n)
  /\ root' = <<>>
  /\ UNCHANGED <<unique_reports, tasks_info, filtered_reports, report_details,
                 transVars, restVars, schedVars, convVars>>

\* one turn of `for report in unique_reports.values():`
FetchDetail ==
  /\ pc = "loop" /\ Len(filtered_reports) < Len(unique_reports)
  /\ LET report == unique_reports[Len(filtered_reports) + 1] IN
     \E r \in Responses("200"), rs \in ResultLists :
       /\ ~r.found => rs = <<>>
       /\ LET element == [id |-> report.id, name |-> "n1", creation_time |-> "c",
                          modification_time |-> "m", scan_run_status |-> "Done",
                          vulns |-> "3", task |-> "t1", results |-> rs]
              res == RaiseIfMissing(r, ReportDetailData(element))
              c   == AfterNested(res.kind) IN
          IF res.kind = "raise"
          THEN /\ FinishFrom(res, r, NestedLog("get_report"), c.sock, c.n)
               /\ UNCHANGED aggVars
          ELSE IF SeverityRaises(res.value.results)
          THEN /\ FinishFrom(Raise("ValueError", <<"could not convert string to float: ''">>),
                             r, NestedLog("get_report"), c.sock, c.n)
               /\ UNCHANGED aggVars
          ELSE /\ report_details' = res.value
               /\ filtered_reports' =
                    Append(filtered_reports, Updated(report, tasks_info, res.value))
               /\ sock' = c.sock /\ openSocks' = c.n
               /\ log' = log \o NestedLog("get_report")
               /\ UNCHANGED <<pc, op, authed, outcome, root, unique_reports, tasks_info>>
  /\ UNCHANGED <<transVars, restVars, schedVars, convVars>>

\* the channel breaks inside the nested get_report_by_id()
FetchDetailFails ==
  /\ pc = "loop" /\ Len(filtered_reports) < Len(unique_reports)
  /\ LET c == AfterNested("raise") IN
       FinishFrom(TransportError, NoResponse, <<"connect", "disconnect">>, c.sock, c.n)
  /\ root' = <<>>
  /\ UNCHANGED <<unique_reports, tasks_info, filtered_reports, report_details,
                 transVars, restVars, schedVars, convVars>>

\* return filtered_reports
ReturnReports ==
  /\ pc = "loop" /\ Len(filtered_reports) = Len(unique_reports)
  /\ Finish(Return(filtered_reports), NoResponse, <<>>)
  /\ UNCHANGED <<aggVars, transVars, restVars, schedVars, convVars>>

Next ==
  \/ \E o \in PublicOps : Enter(o)
  \/ \E o \in PublicOps : EnterFails(o)
  \/ Authenticate
  \/ AuthenticateFails
  \/ Call
  \/ CallFails
  \/ ListReports
  \/ ListReportsFails
  \/ GetTasks
  \/ GetTasksFails
  \/ FetchDetail
  \/ FetchDetailFails
  \/ ReturnReports
  \/ Consume

Spec == Init /\ [][Next]_vars

\* ========================================================= schedule codec
\* Calendar text is the sequence of its content lines NAME:VALUE.  A value is
\* the sequence of its ;-separated parts KEY=VALUE (one part with no key for
\* a plain value); a line that cannot be split into a name and a value has
\* the name "".
Line(n, v) == [name |-> n, value |-> v]
Part(k, v) == [key |-> k, val |-> v]
Plain(v) == <<Part("", v)>>

\* vInt: a number written in decimal digits, and read back
IntToIcal(n) == ToString(n)
IntFromIcal(t) == CHOOSE n \in 0..(MaxInterval + 8) : ToString(n) = t

\* str.upper() on the frequency words requests and calendars use
Upper(w) ==
  CASE w \in {"hourly", "HOURLY"}     -> "HOURLY"
    [] w \in {"daily", "DAILY"}       -> "DAILY"
    [] w \in {"weekly", "Weekly", "WEEKLY"} -> "WEEKLY"
    [] w \in {"monthly", "MONTHLY"}   -> "MONTHLY"
    [] w \in {"yearly", "YEARLY"}     -> "YEARLY"
    [] w \in {"minutely", "MINUTELY"} -> "MINUTELY"
    [] w \in {"secondly", "SECONDLY"} -> "SECONDLY"
    [] OTHER                          -> "FORTNIGHTLY"

\* vFrequency: the words the calendar library accepts, in any case
IsFrequency(w) ==
  Upper(w) \in {"SECONDLY", "MINUTELY", "HOURLY", "DAILY", "WEEKLY", "MONTHLY", "YEARLY"}

\* RecurToIcal leaving INTERVAL out of the rule
RecurToIcalNoInterval(frequency, interval, count) ==
  <<Part("FREQ", Upper(frequency))>>
    \o (IF count # 0 THEN <<Part("COUNT", IntToIcal(count))>> ELSE <<>>)

\* event.add('rrule', rrule_params) serialised by cal.to_ical(): the keys in
\* the library's canonical order, the frequency in upper case; count only
\* `if count:`
RecurToIcal(frequency, interval, count) ==
  <<Part("FREQ", Upper(frequency))>>
    \o (IF count # 0 THEN <<Part("COUNT", IntToIcal(count))>> ELSE <<>>)
    \o <<Part("INTERVAL", IntToIcal(interval))>>

\* icalendar_data = cal.to_ical().decode() of the create_schedule route
EncodeCalendar(frequency, interval, count) ==
  <<Line("BEGIN", Plain("VCALENDAR")), Line("VERSION", Plain("2.0")),
    Line("PRODID", Plain("-//VulunScan//")), Line("BEGIN", Plain("VEVENT")),
    Line("DTSTART", Plain("20240115T090000")), Line("DTSTAMP", Plain("now")),
    Line("RRULE", RecurToIcal(frequency, interval, count)),
    Line("END", Plain("VEVENT")), Line("END", Plain("VCALENDAR"))>>

\* vRecur.from_ical: FREQ must be a frequency word; a rule that cannot be
\* parsed is an error of its event, which the parser drops with the property
RuleOk(parts) ==
  \A i \in 1..Len(parts) : parts[i].key = "FREQ" => IsFrequency(parts[i].val)

RECURSIVE ParseLines(_, _, _, _, _)
\* Calendar.from_ical: a stack of open components; the VEVENTs closed so far,
\* each with its RRULE (<<>> when it has none).  ok is FALSE for a line that
\* is no content line, an END without its BEGIN, and, at the end, anything
\* but exactly one closed top-level component.
ParseLines(text, i, stack, events, rule) ==
  IF i > Len(text)
  THEN [ok |-> stack = <<>> /\ Len(text) > 0, events |-> events]
  ELSE LET l == text[i] IN
       IF l.name = "" THEN [ok |-> FALSE, events |-> events]
       ELSE IF l.name = "BEGIN"
       THEN IF stack = <<>> /\ i > 1 THEN [ok |-> FALSE, events |-> events]
            ELSE ParseLines(text, i + 1, Append(stack, l.value), events, <<>>)
       ELSE IF l.name = "END"
       THEN IF stack = <<>> \/ stack[Len(stack)] # l.value
            THEN [ok |-> FALSE, events |-> events]
            ELSE ParseLines(text, i + 1, SubSeq(stack, 1, Len(stack) - 1),
                            IF l.value = Plain("VEVENT") THEN Append(events, rule) ELSE events,
                            <<>>)
       ELSE IF stack = <<>> THEN [ok |-> FALSE, events |-> events]
       ELSE IF l.name = "RRULE" /\ RuleOk(l.value)
       THEN ParseLines(text, i + 1, stack, events, l.value)
       ELSE ParseLines(text, i + 1, stack, events, rule)

FromIcal(text) == ParseLines(text, 1, <<>>, <<>>, <<>>)

\* rrule.get(key, [default])[0]
RuleGet(parts, k, default) ==
  IF \E i \in 1..Len(parts) : parts[i].key = k
  THEN (parts[CHOOSE i \in 1..Len(parts) : parts[i].key = k]).val
  ELSE default

NoPeriod == <<>>           \* 'period': None

\* PeriodDescription with a sixth branch, for MINUTELY
PeriodDescriptionMinutes(freq, interval) ==
  CASE freq = "DAILY"    -> <<"Every", interval, "day(s)">>
    [] freq = "WEEKLY"   -> <<"Every", interval, "week(s)">>
    [] freq = "MONTHLY"  -> <<"Every", interval, "month(s)">>
    [] freq = "HOURLY"   -> <<"Every", interval, "hour(s)">>
    [] freq = "YEARLY"   -> <<"Every", interval, "year(s)">>
    [] freq = "MINUTELY" -> <<"Every", interval, "minute(s)">>
    [] OTHER             -> NoPeriod

\* f"Every {interval} day(s)" and so on; None for any other frequency
PeriodDescription(freq, interval) ==
  CASE freq = "DAILY"   -> <<"Every", interval, "day(s)">>
    [] freq = "WEEKLY"  -> <<"Every", interval, "week(s)">>
    [] freq = "MONTHLY" -> <<"Every", interval, "month(s)">>
    [] freq = "HOURLY"  -> <<"Every", interval, "hour(s)">>
    [] freq = "YEARLY"  -> <<"Every", interval, "year(s)">>
    [] OTHER            -> NoPeriod

RECURSIVE WalkEvents(_, _, _)
\* for component in cal.walk(): every VEVENT with an RRULE sets the period
WalkEvents(events, i, period) ==
  IF i > Len(events) THEN period
  ELSE IF events[i] # <<>>
       THEN WalkEvents(events, i + 1,
                       PeriodDescription(Upper(RuleGet(events[i], "FREQ", "")),
                                         IF \E k \in 1..Len(events[i]) : events[i][k].key = "INTERVAL"
                                         THEN IntFromIcal(RuleGet(events[i], "INTERVAL", ""))
                                         ELSE 1))
       ELSE WalkEvents(events, i + 1, period)

\* Period giving a daily period to a calendar that cannot be parsed
PeriodGuess(text) ==
  IF text = <<>> THEN NoPeriod
  ELSE LET cal == FromIcal(text) IN
       IF ~cal.ok THEN <<"Every", 1, "day(s)">>
       ELSE WalkEvents(cal.events, 1, NoPeriod)

\* if icalendar_data: try: ... except Exception: print(...)
Period(text) ==
  IF text = <<>> THEN NoPeriod
  ELSE LET cal == FromIcal(text) IN
       IF ~cal.ok THEN NoPeriod
       ELSE WalkEvents(cal.events, 1, NoPeriod)

\* schedule_data of get_schedules
ScheduleData(e) ==
  [id |-> e.id, name |-> FindTextNone(e.name), comment |-> FindTextNone(e.comment),
   timezone |-> FindTextNone(e.timezone), period |-> Period(e.icalendar),
   next_time |-> FindTextNone(e.next_time), last_time |-> FindTextNone(e.last_time),
   owner |-> FindTextNone(e.owner),
   creation_time |-> FindTextNone(e.creation_time),
   modification_time |-> FindTextNone(e.modification_time)]

\* ---- the engine's schedules
\* what a request asked for; the engine keeps it beside the schedule so that
\* a listing can be compared with the request (no translator reads it)
Request(f, n, c) == [frequency |-> f, interval |-> n, count |-> c]
NoRequest == Request("none", 0, 0)

ScheduleElement(id, text, request) ==
  [id |-> id, name |-> "sched", comment |-> "", timezone |-> "UTC",
   next_time |-> "over", last_time |-> Absent, owner |-> "admin",
   creation_time |-> "c", modification_time |-> "m",
   icalendar |-> text, request |-> request]

Frequencies ==
  {"hourly", "daily", "weekly", "monthly", "yearly", "minutely", "Weekly", "fortnightly"}

Calendar(body) ==
  <<Line("BEGIN", Plain("VCALENDAR"))>> \o body \o <<Line("END", Plain("VCALENDAR"))>>
Event(body) == <<Line("BEGIN", Plain("VEVENT"))>> \o body \o <<Line("END", Plain("VEVENT"))>>

\* calendar texts that cannot be parsed
MalformedTexts ==
  {<<Line("", Plain("not a calendar"))>>,
   <<Line("BEGIN", Plain("VCALENDAR")), Line("BEGIN", Plain("VEVENT")),
     Line("RRULE", <<Part("FREQ", "WEEKLY")>>), Line("END", Plain("VCALENDAR"))>>,
   <<Line("BEGIN", Plain("VCALENDAR")), Line("VERSION", Plain("2.0"))>>}

\* calendar texts of other clients of the engine
ForeignTexts ==
  MalformedTexts \cup
  {<<>>,
   Calendar(Event(<<Line("DTSTART", Plain("20240115T090000"))>>)),
   Calendar(Event(<<Line("RRULE", <<Part("FREQ", "DAILY")>>)>>)),
   Calendar(Event(<<Line("RRULE", <<Part("FREQ", "FORTNIGHTLY"), Part("INTERVAL", "2")>>)>>))}

NextId == Len(schedules) + 1

\* POST /create_schedule: build the calendar, scanner.create_schedule(...)
CreateSchedule ==
  /\ Len(schedules) < MaxSchedules
  /\ \E f \in Frequencies, n \in 1..MaxInterval, c \in {0, 3} :
       IF ~IsFrequency(f)
       THEN \* cal.to_ical() raises ValueError: nothing reaches the engine
            /\ reply' = [status |-> 500, body |-> "ValueError"]
            /\ UNCHANGED schedules
       ELSE /\ schedules' = Append(schedules,
                 ScheduleElement(NextId, EncodeCalendar(f, n, c), Request(f, n, c)))
            /\ reply' = [status |-> 201, body |-> "schedule_id"]
  /\ listed' = <<>>
  /\ UNCHANGED <<scanVars, aggVars, transVars, restVars, convRest>>

\* the engine refuses the schedule: no id in the response, [0] raises IndexError
CreateScheduleRefused ==
  /\ Len(schedules) < MaxSchedules
  /\ reply' = [status |-> 500, body |-> "IndexError"]
  /\ listed' = <<>>
  /\ UNCHANGED <<scanVars, aggVars, transVars, restVars, schedules, convRest>>

\* another client stores a schedule
ForeignSchedule ==
  /\ Len(schedules) < MaxSchedules
  /\ \E text \in ForeignTexts :
       schedules' = Append(schedules, ScheduleElement(NextId, text, NoRequest))
  /\ listed' = <<>>
  /\ UNCHANGED <<scanVars, aggVars, transVars, restVars, convVars>>

\* GET /get_schedules: scanner.get_schedules()
GetSchedules ==
  /\ listed' = [i \in 1..Len(schedules) |-> ScheduleData(schedules[i])]
  /\ reply' = [status |-> 200, body |-> "schedules"]
  /\ UNCHANGED <<scanVars, aggVars, transVars, restVars, schedules, convRest>>

SchedNext ==
  \/ CreateSchedule
  \/ CreateScheduleRefused
  \/ ForeignSchedule
  \/ GetSchedules

SpecSched == Init /\ [][SchedNext]_vars

\* ====================================================== translator inputs
\* The elements a response can hold: every child a translator reads may be
\* missing, and a child that is there may be empty.
TargetElements ==
  {[id |-> "t1", name |-> n, comment |-> c, hosts |-> h, exclude_hosts |-> x,
    port_list |-> p, creation_time |-> "c", modification_time |-> "m"] :
     n \in {Absent, "web1"}, c \in {Absent, "", "note"}, h \in {Absent, "10.0.0.5"},
     x \in {Absent, "10.0.0.9"}, p \in {Absent, "ports"}}

AlertElements ==
  {[id |-> "a1", name |-> n, condition |-> cn, event |-> ev, method |-> mt,
    comment |-> cm, creation_time |-> "c", modification_time |-> "m"] :
     n \in {Absent, "mail"}, cn \in {Absent, "Always"}, ev \in {Absent, "Task run status changed"},
     mt \in {Absent, "Email"}, cm \in {Absent, ""}}

ListedScheduleElements ==
  {[ScheduleElement(1, text, NoRequest) EXCEPT !.name = n, !.comment = c, !.next_time = t] :
     text \in {<<>>, EncodeCalendar("weekly", 2, 0)},
     n \in {Absent, "nightly"}, c \in {Absent, ""}, t \in {Absent, "over"}}

RoleElements ==
  {[id |-> "role1", name |-> n, description |-> d, permissions |-> p,
    creation_time |-> c, modification_time |-> "m"] :
     n \in {Absent, "Admin"}, d \in {Absent, "all"}, c \in {Absent, "c"},
     p \in {<<>>, <<"a">>, <<"a", ",", "b">>}}

UserElements ==
  {[id |-> "u1", name |-> n, creation_time |-> c, modification_time |-> "m", roles |-> r] :
     n \in {Absent, "bob"}, c \in {Absent, "c"},
     r \in {<<>>, <<[id |-> "role1", name |-> "Admin"]>>,
            <<[id |-> "role1", name |-> Absent], [id |-> "role2", name |-> "User"]>>}}

TaskElements ==
  {[id |-> i, name |-> n, status |-> st] :
     i \in {Absent, "t1"}, n \in {Absent, "", "scan"}, st \in {Absent, "Done"}}

TaskDetailElements ==
  {[id |-> "t1", name |-> n, comment |-> c, creation_time |-> "c",
    modification_time |-> "m", owner |-> o, status |-> st, progress |-> "100",
    report_count |-> rc, last_report |-> lr] :
     n \in {Absent, "scan"}, c \in {Absent, ""}, st \in {Absent, "Done"}, rc \in {Absent, "2"},
     o \in {[present |-> FALSE, name |-> Absent], [present |-> TRUE, name |-> Absent],
            [present |-> TRUE, name |-> "admin"]},
     lr \in {[present |-> FALSE, id |-> Absent, timestamp |-> Absent,
              scan_start |-> Absent, scan_end |-> Absent],
             [present |-> TRUE, id |-> "r1", timestamp |-> "ts",
              scan_start |-> Absent, scan_end |-> "end"]}}

\* the pieces a description is put together from: a whole identifier, its
\* parts, a digit and another character
Pieces ==
  {<<"C", "V", "E", "-", "2", "0", "2", "1", "-", "7">>, <<"C", "V", "E", "-">>,
   <<"2", "0", "2", "1">>, <<"-", "7">>, <<"7">>, <<"x">>}

RECURSIVE Flatten(_)
Flatten(ps) == IF ps = <<>> THEN <<>> ELSE Head(ps) \o Flatten(Tail(ps))

Descriptions == {Flatten(ps) : ps \in UNION {[1..n -> Pieces] : n \in 0..MaxPieces}}

DetailLists ==
  {<<>>,
   <<[name |-> "location", value |-> <<"8", "0", "/", "t", "c", "p">>]>>,
   <<[name |-> Absent, value |-> <<>>], [name |-> "location", value |-> <<"4", "4", "3">>]>>}

DescribedResults ==
  {[id |-> "res", host |-> h, description |-> d, severity |-> sv, threat |-> "High",
    details |-> dt] :
     h \in {Absent, "10.0.0.5"}, d \in Descriptions, sv \in {Absent, "7.2"},
     dt \in DetailLists}

\* translated: the function that ran and the record it made of one element
Translated(fn, rec) == [fn |-> fn, rec |-> rec]
Others == <<scanVars, aggVars, schedVars, convVars, restVars>>
NoRecord == Translated("none", NoneVal)

TranslateTarget ==
  /\ translated = NoRecord
  /\ \E t \in TargetElements : translated' = Translated("get_targets", TargetData(t))
  /\ UNCHANGED Others
TranslateAlert ==
  /\ translated = NoRecord
  /\ \E a \in AlertElements : translated' = Translated("get_alerts", AlertData(a))
  /\ UNCHANGED Others
TranslateSchedule ==
  /\ translated = NoRecord
  /\ \E sc \in ListedScheduleElements :
       translated' = Translated("get_schedules", ScheduleData(sc))
  /\ UNCHANGED Others
TranslateRole ==
  /\ translated = NoRecord
  /\ \E r \in RoleElements : translated' = Translated("get_roles", RoleData(r))
  /\ UNCHANGED Others
TranslateUser ==
  /\ translated = NoRecord
  /\ \E u \in UserElements : translated' = Translated("get_users", UserData(u))
  /\ UNCHANGED Others
TranslateTask ==
  /\ translated = NoRecord
  /\ \E t \in TaskElements : translated' = Translated("get_tasks", TaskEntry(t))
  /\ UNCHANGED Others
TranslateTaskDetail ==
  /\ translated = NoRecord
  /\ \E t \in TaskDetailElements :
       translated' = Translated("get_task", TaskInfo(Response("200", TRUE), t))
  /\ UNCHANGED Others
TranslateReport ==
  /\ translated = NoRecord
  /\ \E el \in ReportElements : translated' = Translated("get_reports", ReportListData(el))
  /\ UNCHANGED Others
TranslateReportDetail ==
  /\ translated = NoRecord
  /\ \E el \in ReportElements, rs \in ResultLists :
       translated' = Translated("get_report_by_id",
         ReportDetailData([id |-> el.id, name |-> el.name, creation_time |-> el.creation_time,
                           modification_time |-> el.modification_time,
                           scan_run_status |-> el.scan_run_status, vulns |-> el.vulns,
                           task |-> el.task, results |-> rs]))
  /\ UNCHANGED Others
TranslateResult ==
  /\ translated = NoRecord
  /\ \E r \in DescribedResults : translated' = Translated("result", ResultData(r))
  /\ UNCHANGED Others

\* the caller has taken the record
TakeRecord ==
  /\ translated # NoRecord
  /\ translated' = NoRecord
  /\ UNCHANGED Others

TranslateNext ==
  \/ TranslateTarget
  \/ TranslateAlert
  \/ TranslateSchedule
  \/ TranslateRole
  \/ TranslateUser
  \/ TranslateTask
  \/ TranslateTaskDetail
  \/ TranslateReport
  \/ TranslateReportDetail
  \/ TranslateResult
  \/ TakeRecord

SpecTranslate == Init /\ [][TranslateNext]_vars

\* ============================================== convert_hosts_to_targets
Reply(status, body) == [status |-> status, body |-> body]
Falsy(v) == v = Absent \/ v = ""

\* the engine's answer to create_target: it keeps target names unique
EngineCreateTarget(tgts, name) ==
  IF \E i \in 1..Len(tgts) : tgts[i].name = name
  THEN [status |-> "400", text |-> "Target exists already", found |-> FALSE]
  ELSE Response("201", TRUE)

TargetElement(n, name, ip) ==
  [id |-> n, name |-> name, comment |-> Absent, hosts |-> ip, exclude_hosts |-> Absent,
   port_list |-> "ports", creation_time |-> "c", modification_time |-> "m"]

HostNames == {Absent, "", "web1", "web2"}
HostIps == {Absent, "10.0.0.1", "10.0.0.2"}
Hosts == {[hostname |-> h, ip |-> p] : h \in HostNames, p \in HostIps}
HostLists == UNION {[1..n -> Hosts] : n \in 0..MaxHosts}

\* target_name = hostname if hostname else ip
TargetName(host) == IF Falsy(host.hostname) THEN host.ip ELSE host.hostname

RECURSIVE ConvertLoop(_, _, _, _, _)
\* for host in hosts: ...; the targets of the engine, the create_target calls
\* made and the reply when the handler returns
ConvertLoop(hs, i, tgts, calls, existing_target_names) ==
  IF i > Len(hs)
  THEN [targets |-> tgts, created |-> calls, reply |-> Reply(201, "created_targets")]
  ELSE IF Falsy(hs[i].ip)
  THEN [targets |-> tgts, created |-> calls,
        reply |-> Reply(400, "IP address is required for each host")]
  ELSE IF TargetName(hs[i]) \in existing_target_names
  THEN ConvertLoop(hs, i + 1, tgts, calls, existing_target_names)
  ELSE LET name == TargetName(hs[i])
           call == [name |-> name, hosts |-> hs[i].ip]
           o == Handle("create_target", EngineCreateTarget(tgts, name))
       IN  IF o.kind = "raise"
           THEN [targets |-> tgts, created |-> Append(calls, call),
                 reply |-> Reply(500, o.msg[3])]
           ELSE ConvertLoop(hs, i + 1,
                            Append(tgts, TargetElement(Len(tgts) + 1, name, hs[i].ip)),
                            Append(calls, call), existing_target_names)

\* POST /convert_hosts_to_targets.  get_targets() returns dicts, so
\* target.findtext raises AttributeError as soon as there is one target, and
\* the set of existing names is only ever built from an empty list.
ConvertHosts ==
  \E hs \in HostLists :
    LET existing == [i \in 1..Len(targets) |-> TargetData(targets[i])]
        done == ConvertLoop(hs, 1, targets, <<>>, {})
    IN  /\ hosts' = hs
        /\ existing_targets' = existing
        /\ IF existing # <<>>
           THEN /\ reply' = Reply(500, "AttributeError")
                /\ created' = <<>>
                /\ remote' = <<"get_targets">>
                /\ UNCHANGED targets
           ELSE /\ reply' = done.reply
                /\ created' = done.created
                /\ remote' = <<"get_targets">> \o [k \in 1..Len(done.created) |-> "create_target"]
                /\ targets' = done.targets
        /\ UNCHANGED <<scanVars, aggVars, transVars, restVars, schedVars>>

\* POST /create_target
CreateTargetRoute ==
  /\ Len(targets) < MaxTargets
  /\ \E name \in {Absent, "web1", "web2"}, ip \in {"10.0.0.1", "10.0.0.2"} :
       IF Falsy(name)
       THEN /\ reply' = Reply(400, "Name and hosts are required.")
            /\ remote' = <<>>
            /\ UNCHANGED targets
       ELSE LET o == Handle("create_target", EngineCreateTarget(targets, name)) IN
            /\ remote' = <<"create_target">>
            /\ IF o.kind = "raise"
               THEN /\ reply' = Reply(400, o.msg[3])
                    /\ UNCHANGED targets
               ELSE /\ reply' = Reply(201, "target_id")
                    /\ targets' = Append(targets, TargetElement(Len(targets) + 1, name, ip))
  /\ UNCHANGED <<scanVars, aggVars, transVars, restVars, schedVars, created, hosts, existing_targets>>

ConvertNext ==
  \/ ConvertHosts
  \/ CreateTargetRoute

SpecConvert == Init /\ [][ConvertNext]_vars

\* ================================================= users and access control
\* A credential is what the Authorization header of a request holds: nothing,
\* a token that cannot be verified, an expired token, or a token this
\* application issued, with the identity put into it. row is kept beside
\* it: the row of the users table the token was issued to.
Cred(kind, identity, row) == [kind |-> kind, identity |-> identity, row |-> row]
NoCred == Cred("none", 0, 0)
Creds ==
  {NoCred, Cred("invalid", 0, 0), Cred("expired", 0, 0)}
    \cup {Cred("valid", t.identity, t.row) : t \in tokens}

\* @jwt_required(): 0 lets the request through; the answers to a missing,
\* expired or unverifiable token are those of the token library
JwtRequired(cred) ==
  CASE cred.kind = "valid"   -> 0
    [] cred.kind = "invalid" -> 422
    [] OTHER                 -> 401

\* db.query(User).filter_by(id=...).first()
UsersById(id) == {u \in users : u.id = id}
UserById(id) == CHOOSE u \in users : u.id = id

Pass == Reply(0, "pass")

\* token_required: the wrapper's answer, Pass when it calls fn
TokenRequired(cred) ==
  IF JwtRequired(cred) # 0 THEN Reply(JwtRequired(cred), "token")
  ELSE IF UsersById(cred.identity) = {} THEN Reply(403, "User not found!")
  ELSE Pass

\* admin_required without the comparison of the role
AdminRequiredAnyRole(cred) == TokenRequired(cred)

\* admin_required: the wrapper's answer, Pass when it calls fn
AdminRequired(cred) ==
  IF JwtRequired(cred) # 0 THEN Reply(JwtRequired(cred), "token")
  ELSE IF UsersById(cred.identity) = {} THEN Reply(403, "User not found!")
  ELSE IF UserById(cred.identity).role # "UserRole.ADMIN"
       THEN Reply(403, "Admin access required")
  ELSE Pass

\* the scanner routes by their decorator
AdminRoutes ==
  {"create_user", "modify_user", "delete_user", "clone_user", "delete_host",
   "convert_hosts_to_targets", "create_target", "delete_target", "modify_target",
   "create_task", "start_task", "stop_task", "resume_task", "delete_task", "modify_task",
   "delete_report", "create_schedule", "modify_schedule", "delete_schedule",
   "create_alert", "modify_alert", "delete_alert"}
TokenRoutes ==
  {"authenticate", "get_roles", "get_users", "get_user", "get_scanners", "get_configs",
   "get_portlists", "get_hosts", "get_targets", "get_task", "get_task_status", "get_tasks",
   "get_results", "get_reports", "get_report", "get_reports_with_tasks", "export_report",
   "get_schedules", "get_alerts"}
Guard(route, cred) ==
  IF route \in AdminRoutes THEN AdminRequired(cred) ELSE TokenRequired(cred)

\* ---- passwords and e-mail addresses as the JSON payload has them
Text(t) == [type |-> "str", text |-> t]
Number(t) == [type |-> "int", text |-> t]
Passwords == {Text("pw"), Number("123")}
\* str(password)
Str(p) == Text(p.text)
\* generate_password_hash / check_password_hash
Hash(p) == <<"pbkdf2", p.text>>
Usernames == {"bob", "eve"}
Emails == {"bob@x.io", "Bob@x.io", "eve@x.io"}
\* str.lower()
Lower(e) == IF e = "Bob@x.io" THEN "bob@x.io" ELSE e
\* the Enum(UserRole) column: a member's name is stored as the member
RoleColumn(name) == IF name = "ADMIN" THEN "UserRole.ADMIN" ELSE "UserRole.USER"

\* signup taking the role from the payload
SignupRoleFromPayload(role) == IF role = Absent THEN "USER" ELSE role
\* role = 'USER'  # Force role to 'USER'
SignupRole(role) == "USER"

\* a row of the users table; row, via, given and touched are kept beside it:
\* the number of the row among all rows ever made, the route that made it,
\* the password as the request had it, and whether the row was modified since
User(id, username, email, hashed, role, via, given) ==
  [id |-> id, username |-> username, email |-> email, hashed_password |-> hashed,
   role |-> RoleColumn(role), row |-> last_id + 1, via |-> via, given |-> given,
   touched |-> FALSE]

\* id = Column(Integer, primary_key=True): the database gives the id, the
\* next value of a sequence or one more than the largest id in the table
NewIds ==
  {last_id + 1,
   (CHOOSE m \in {0} \cup {u.id : u \in users} : \A u \in users : u.id <= m) + 1}

Asked(route, cred, email, password, role) ==
  [route |-> route, cred |-> cred, email |-> email, password |-> password, role |-> role]
Idle == req.route = "none"
Ran(token) == [ran |-> TRUE, token |-> token]
NotRun == [ran |-> FALSE, token |-> 0]
authOthers == <<scanVars, aggVars, transVars, schedVars, targets, created, hosts, existing_targets,
                reportVars, cacheVars, concVars, viewVars, aiVars>>

\* the first administrator, put into the table by hand
SeedAdmin ==
  /\ Idle /\ users = {} /\ last_id = 0
  /\ users' = {User(1, "root", "root@x.io", Hash(Text("pw")), "ADMIN", "seed", Text("pw"))}
  /\ last_id' = 1
  /\ UNCHANGED <<authOthers, tokens, req, handled, reply, remote>>

\* POST /auth/signup
Signup ==
  /\ Idle /\ last_id < MaxUsers
  /\ \E username \in Usernames, email \in Emails, password \in Passwords,
        role \in {Absent, "ADMIN"} :
       /\ req' = Asked("auth/signup", NoCred, email, password, role)
       /\ IF \E u \in users : u.username = username
          THEN reply' = Reply(400, "Username already exists") /\ UNCHANGED <<users, last_id>>
          ELSE IF \E u \in users : u.email = email
          THEN reply' = Reply(400, "Email already exists") /\ UNCHANGED <<users, last_id>>
          ELSE /\ \E id \in NewIds :
                    users' = users \cup {User(id, username, email, Hash(Str(password)),
                                              SignupRole(role), "signup", password)}
               /\ last_id' = last_id + 1
               /\ reply' = Reply(201, "User created successfully")
  /\ handled' = Ran(0)
  /\ remote' = <<>>
  /\ UNCHANGED <<authOthers, tokens>>

\* POST /auth/create_admin
CreateAdmin ==
  /\ Idle /\ last_id < MaxUsers
  /\ \E cred \in Creds, username \in Usernames, email \in Emails, password \in Passwords :
       /\ req' = Asked("auth/create_admin", cred, email, password, "")
       /\ IF AdminRequired(cred) # Pass
          THEN /\ reply' = AdminRequired(cred) /\ handled' = NotRun
               /\ UNCHANGED <<users, last_id>>
          ELSE /\ handled' = Ran(0)
               /\ IF \E u \in users : u.username = username
                  THEN reply' = Reply(400, "Username already exists") /\ UNCHANGED <<users, last_id>>
                  ELSE IF \E u \in users : u.email = email
                  THEN reply' = Reply(400, "Email already exists") /\ UNCHANGED <<users, last_id>>
                  ELSE IF password.type # "str"
                  THEN \* set_password(password) hashes no number
                       reply' = Reply(500, "Internal server error") /\ UNCHANGED <<users, last_id>>
                  ELSE /\ \E id \in NewIds :
                            users' = users \cup {User(id, username, email, Hash(password),
                                                      "ADMIN", "create_admin", password)}
                       /\ last_id' = last_id + 1
                       /\ reply' = Reply(201, "Admin created successfully")
  /\ remote' = <<>>
  /\ UNCHANGED <<authOthers, tokens>>

\* POST /auth/signin
Signin ==
  /\ Idle
  /\ \E email \in Emails \cup {Absent, "root@x.io"}, password \in Passwords :
       LET found == {u \in users : u.email = Lower(email)}
           user == CHOOSE u \in found : TRUE
       IN  /\ req' = Asked("auth/signin", NoCred, email, password, "")
           /\ IF email = Absent
              THEN \* data.get('email').lower() on None
                   /\ reply' = Reply(500, "Internal server error")
                   /\ handled' = Ran(0) /\ UNCHANGED tokens
              ELSE IF found = {}
              THEN /\ reply' = Reply(401, "Invalid email or password")
                   /\ handled' = Ran(0) /\ UNCHANGED tokens
              ELSE IF password.type # "str"
              THEN \* check_password_hash cannot hash a number
                   /\ reply' = Reply(500, "Internal server error")
                   /\ handled' = Ran(0) /\ UNCHANGED tokens
              ELSE IF user.hashed_password # Hash(password)
              THEN /\ reply' = Reply(401, "Invalid email or password")
                   /\ handled' = Ran(0) /\ UNCHANGED tokens
              ELSE /\ reply' = Reply(200, "access_token")
                   /\ handled' = Ran(user.id)
                   /\ tokens' = tokens \cup {[identity |-> user.id, row |-> user.row]}
  /\ remote' = <<>>
  /\ UNCHANGED <<authOthers, users, last_id>>

\* PUT /auth/modify_user/<user_id> with a role or with a password
ModifyUser ==
  /\ Idle
  /\ \E cred \in Creds, id \in 1..MaxUsers, field \in {"role", "password"},
        role \in {"ADMIN", "admin"}, password \in Passwords :
       /\ req' = Asked("auth/modify_user", cred, field, password, role)
       /\ IF AdminRequired(cred) # Pass
          THEN reply' = AdminRequired(cred) /\ handled' = NotRun /\ UNCHANGED users
          ELSE /\ handled' = Ran(0)
               /\ IF UsersById(id) = {}
                  THEN reply' = Reply(404, "User not found") /\ UNCHANGED users
                  ELSE IF field = "role"
                  THEN \* a JSON string is never one of [UserRole.USER, UserRole.ADMIN]
                       IF role \notin {"UserRole.USER", "UserRole.ADMIN"}
                       THEN reply' = Reply(400, "Invalid role specified") /\ UNCHANGED users
                       ELSE /\ users' = (users \ UsersById(id)) \cup
                                        {[UserById(id) EXCEPT !.role = role, !.touched = TRUE]}
                            /\ reply' = Reply(200, "User updated successfully")
                  ELSE IF password.type # "str"
                  THEN reply' = Reply(500, "Internal server error") /\ UNCHANGED users
                  ELSE /\ users' = (users \ UsersById(id)) \cup
                                   {[UserById(id) EXCEPT !.hashed_password = Hash(password),
                                                         !.touched = TRUE]}
                       /\ reply' = Reply(200, "User updated successfully")
  /\ remote' = <<>>
  /\ UNCHANGED <<authOthers, last_id, tokens>>

\* DELETE /auth/delete_user/<user_id>
DeleteUser ==
  /\ Idle
  /\ \E cred \in Creds, id \in 1..MaxUsers :
       /\ req' = Asked("auth/delete_user", cred, "", Text(""), "")
       /\ IF AdminRequired(cred) # Pass
          THEN reply' = AdminRequired(cred) /\ handled' = NotRun /\ UNCHANGED users
          ELSE /\ handled' = Ran(0)
               /\ IF UsersById(id) = {}
                  THEN reply' = Reply(404, "User not found") /\ UNCHANGED users
                  ELSE /\ users' = users \ UsersById(id)
                       /\ reply' = Reply(200, "User deleted successfully")
  /\ remote' = <<>>
  /\ UNCHANGED <<authOthers, last_id, tokens>>

\* a request to a route of the scanner blueprint: the decorator, and then the
\* handler body with its engine call
ScannerRequest ==
  /\ Idle
  /\ \E route \in AdminRoutes \cup TokenRoutes, cred \in Creds :
       /\ req' = Asked(route, cred, "", Text(""), "")
       /\ IF Guard(route, cred) # Pass
          THEN reply' = Guard(route, cred) /\ handled' = NotRun /\ remote' = <<>>
          ELSE reply' = Reply(200, "done") /\ handled' = Ran(0) /\ remote' = <<route>>
  /\ UNCHANGED <<authOthers, users, last_id, tokens>>

\* the reply is sent
Respond ==
  /\ ~Idle
  /\ req' = Asked("none", 0, "", "", "")
  /\ handled' = NotRun
  /\ reply' = Reply(0, "none")
  /\ remote' = <<>>
  /\ UNCHANGED <<authOthers, users, last_id, tokens>>

AuthNext ==
  \/ SeedAdmin
  \/ Signup
  \/ CreateAdmin
  \/ Signin
  \/ ModifyUser
  \/ DeleteUser
  \/ ScannerRequest
  \/ Respond

SpecAuth == Init /\ [][AuthNext]_vars

\* ============================================================ report routes
EngineReportIds == 1..MaxReports
Formats == {"csv", "xlsx", "pdf", "txt"}

\* What the engine answers get_report(report_id) with: the report element
\* when it holds the report, an envelope without one otherwise.
EngineGetReport(held) ==
  IF held THEN {Response("200", TRUE)} \cup {Response(s, FALSE) : s \in {"400", "500"}}
  ELSE {Response("404", FALSE), Response("200", FALSE)}

\* an exception no except clause of the route catches: Flask answers 500
Unhandled(exc) == Reply(500, exc)

\* if "error" in report_data: the dict get_report_by_id builds has the keys
\* id, name, creation_time, modification_time, scan_run_status, vulns_count,
\* task_id and results
HasErrorKey(report_data) == FALSE

Served(route, report_id, format, held, answer) ==
  [route |-> route, report_id |-> report_id, format |-> format, held |-> held,
   answer |-> answer]

reportOthers == <<scanVars, aggVars, transVars, schedVars, convRest, authVars, cacheVars,
                  concVars, viewVars, aiVars>>

\* a scan ends and the engine stores its report
ScanEnds ==
  /\ served.route = "none"
  /\ \E id \in EngineReportIds \ reports : reports' = reports \cup {id}
  /\ UNCHANGED <<reportOthers, served, reply>>

\* GET /get_report/<report_id>
GetReportRoute ==
  /\ served.route = "none"
  /\ \E id \in EngineReportIds, lost \in BOOLEAN :
       IF lost
       THEN /\ served' = Served("get_report", id, "", id \in reports, "none")
            /\ reply' = Unhandled(HandleTransport("get_report_by_id").exc)
       ELSE \E r \in EngineGetReport(id \in reports) :
              LET o == Handle("get_report_by_id", r) IN
              /\ served' = Served("get_report", id, "", id \in reports,
                                  IF r.found THEN "found" ELSE "missing")
              /\ reply' = IF o.kind = "raise" THEN Unhandled(o.exc)
                          ELSE IF HasErrorKey(o.value) THEN Reply(404, "report_data")
                          ELSE Reply(200, "report_data")
  /\ UNCHANGED <<reportOthers, reports>>

\* GET /export_report/<report_id>/<format>
ExportReportRoute ==
  /\ served.route = "none"
  /\ \E id \in EngineReportIds, format \in Formats, lost \in BOOLEAN :
       IF lost
       THEN /\ served' = Served("export_report", id, format, id \in reports, "none")
            /\ reply' = Unhandled(HandleTransport("get_report_by_id").exc)
       ELSE \E r \in EngineGetReport(id \in reports) :
              LET o == Handle("get_report_by_id", r) IN
              /\ served' = Served("export_report", id, format, id \in reports,
                                  IF r.found THEN "found" ELSE "missing")
              /\ reply' = IF o.kind = "raise"
                          THEN IF o.exc = "ValueError" THEN Reply(500, o.msg[3])
                               ELSE Unhandled(o.exc)
                          ELSE IF HasErrorKey(o.value) THEN Reply(404, "report_data")
                          ELSE IF format \in {"csv", "xlsx", "pdf"} THEN Reply(200, "file")
                          ELSE Reply(400, "Unsupported format")
  /\ UNCHANGED <<reportOthers, reports>>

\* DELETE /delete_report/<report_id>
DeleteReportRoute ==
  /\ served.route = "none"
  /\ \E id \in EngineReportIds :
       LET r == IF id \in reports THEN Response("200", TRUE) ELSE Response("404", FALSE)
           o == Handle("delete_report", r)
       IN  /\ served' = Served("delete_report", id, "", id \in reports,
                               IF r.found THEN "found" ELSE "missing")
           /\ reports' = reports \ {id}
           /\ reply' = IF o.kind = "raise" THEN Reply(400, o.msg[3])
                       ELSE Reply(200, "status_dict")
  /\ UNCHANGED reportOthers

\* the reply is sent
ReportSent ==
  /\ served.route # "none"
  /\ served' = Served("none", 0, "", FALSE, "none")
  /\ reply' = Reply(0, "none")
  /\ UNCHANGED <<reportOthers, reports>>

ReportNext ==
  \/ ScanEnds
  \/ GetReportRoute
  \/ ExportReportRoute
  \/ DeleteReportRoute
  \/ ReportSent

SpecReport == Init /\ [][ReportNext]_vars

\* ==================================================== the aggregate's cache
\* How get_reports_with_tasks is called: without argument, with a positional
\* filter_string or with the keyword.
NoArgs        == [form |-> "none", arg |-> ""]
Positional(f) == [form |-> "positional", arg |-> f]
Keyword(f)    == [form |-> "keyword", arg |-> f]
CallForms == {NoArgs, Positional("rows=-1"), Positional("rows=10"), Keyword("rows=-1")}

\* filter_string='rows=-1'
FilterOf(call) == IF call.form = "none" THEN "rows=-1" ELSE call.arg

\* cachetools.keys.hashkey(self, *args, **kwargs): the arguments as passed
hashkey(call) ==
  CASE call.form = "none"       -> <<"self">>
    [] call.form = "positional" -> <<"self", call.arg>>
    [] OTHER                    -> <<"self", "kwmark", "filter_string", call.arg>>

Entry(key, value, expires) == [key |-> key, value |-> value, expires |-> expires]
Keys(c) == {c[i].key : i \in 1..Len(c)}
Index(c, k) ==
  IF k \in Keys(c) THEN CHOOSE i \in 1..Len(c) : c[i].key = k ELSE 0
Remove(c, k) == SelectSeq(c, LAMBDA e : e.key # k)
\* self.__links.move_to_end(key)
MoveToEnd(c, k) == IF Index(c, k) = 0 THEN c ELSE Append(Remove(c, k), c[Index(c, k)])

\* a store that lets an entry live one tick longer
ExpiredLate(e, time) == time > e.expires
\* not (self.timer() < link.expires)
Expired(e, time) == ~(time < e.expires)

\* TTLCache.expire(time)
Expire(c, time) == SelectSeq(c, LAMBDA e : ~Expired(e, time))

\* TTLCache.__getitem__: the link is moved to the end, then its time is looked at
CacheGetItem(c, k, time) ==
  LET i == Index(c, k) IN
  IF i = 0 THEN [cache |-> c, hit |-> FALSE, value |-> NoValue]
  ELSE [cache |-> MoveToEnd(c, k), hit |-> ~Expired(c[i], time),
        value |-> IF Expired(c[i], time) THEN NoValue ELSE c[i].value]

\* eviction of the entry used last
PopItemNewest(c, time) == SubSeq(Expire(c, time), 1, Len(Expire(c, time)) - 1)
\* TTLCache.popitem: key = next(iter(self.__links))
PopItem(c, time) == Tail(Expire(c, time))

\* while self.__currsize + size > self.__maxsize: self.popitem()
RECURSIVE MakeRoom(_, _)
MakeRoom(c, time) ==
  IF Len(c) + 1 > maxsize /\ c # <<>> THEN MakeRoom(PopItem(c, time), time) ELSE c

\* TTLCache.__setitem__
CacheSetItem(c, k, v, time) ==
  LET live == Expire(c, time)
      room == IF k \in Keys(live) THEN live ELSE MakeRoom(live, time)
  IN  [cache |-> Append(Remove(room, k), Entry(k, v, time + ttl)),
       evicted |-> {[key |-> e.key, expires |-> e.expires] : e \in Range(live)} \
                   {[key |-> e.key, expires |-> e.expires] : e \in Range(room)}]

\* the list the body returns, marked with the filter it asked the engine
\* with and the tick it asked at
Compute(filter, time) == [filter |-> filter, at |-> time, whole |-> TRUE]
\* the list put together from a listing the engine refused to give
Partial(filter, time) == [filter |-> filter, at |-> time, whole |-> FALSE]

\* the key is read or written: it becomes the most recently used one
Touch(r, k) == Append(SelectSeq(r, LAMBDA x : x # k), k)
Kept(r, c) == SelectSeq(r, LAMBDA x : x \in Keys(c))
Unexpired(ev, time) == {e \in ev : time < e.expires}

cacheOthers ==
  <<scanVars, aggVars, transVars, schedVars, targets, created, hosts, existing_targets,
    reply, authVars, reportVars, concVars, viewVars, aiVars>>

\* time passes
Tick ==
  /\ called = NoCall /\ now < MaxTime
  /\ now' = now + 1
  /\ evictions' = Unexpired(evictions, now + 1)
  /\ UNCHANGED <<cacheOthers, remote, cache, called, recency>>

\* @cached(cache) around get_reports_with_tasks: one call, from the lookup
\* of the key to the return or the exception
CachedCall ==
  /\ called = NoCall
  /\ \E call \in CallForms, fails \in BOOLEAN :
       LET k == hashkey(call)
           got == CacheGetItem(cache, k, now)
           v == Compute(FilterOf(call), now)
           set == CacheSetItem(got.cache, k, v, now)
           found == [key |-> k, start |-> now, hit |-> got.hit, raised |-> FALSE,
                     value |-> got.value, pre |-> cache, gone |-> evictions,
                     oldest |-> IF recency = <<>> THEN <<>> ELSE Head(recency)]
       IN  /\ got.hit => ~fails
           /\ IF got.hit
              THEN /\ cache' = got.cache
                   /\ called' = found
                   /\ remote' = <<>>
                   /\ recency' = Kept(Touch(recency, k), got.cache)
                   /\ UNCHANGED evictions
              ELSE IF fails
              THEN /\ cache' = got.cache
                   /\ called' = [found EXCEPT !.raised = TRUE]
                   /\ remote' = <<"get_reports">>
                   /\ recency' = Kept(IF k \in Keys(cache) THEN Touch(recency, k) ELSE recency,
                                      got.cache)
                   /\ UNCHANGED evictions
              ELSE /\ cache' = set.cache
                   /\ called' = [found EXCEPT !.value = v]
                   /\ remote' = <<"get_reports", "get_tasks">>
                   /\ recency' = Kept(Touch(recency, k), set.cache)
                   /\ evictions' = {e \in evictions \cup set.evicted : e.key # k}
  /\ UNCHANGED <<cacheOthers, now>>

\* the caller has the list or the exception
CallReturned ==
  /\ called # NoCall
  /\ called' = NoCall /\ remote' = <<>>
  /\ UNCHANGED <<cacheOthers, cache, now, evictions, recency>>

CacheNext ==
  \/ Tick
  \/ CachedCall
  \/ CallReturned

SpecCache == Init /\ [][CacheNext]_vars

\* ======================================================= concurrent requests
\* The steps of a public operation, one remote call or one use of the
\* connection each. get_reports_with_tasks runs get_tasks inside its own with
\* block; the engine is taken to hold no report, so no get_report_by_id follows.
Program(o) ==
  IF o = Aggregate
  THEN <<"lookup", "enter", "authenticate", "get_reports",
         "enter", "authenticate", "get_tasks", "exit", "exit", "store">>
  ELSE <<"enter", "authenticate", o, "exit">>

ConcurrentOps == {Aggregate, "get_users"}
ConcurrentCalls == {NoArgs, Positional("rows=10")}
ThreadFinished(th) == th.pc > Len(Program(th.op))
Step(th) == IF th.pc = 0 \/ ThreadFinished(th) THEN "none" ELSE Program(th.op)[th.pc]
Advance(th) ==
  IF th.pc = Len(Program(th.op))
  THEN [th EXCEPT !.pc = @ + 1, !.result = [kind |-> "return", exc |-> "none"]]
  ELSE [th EXCEPT !.pc = @ + 1]
\* an exception leaves every with block of the operation
Failed(th, exc) ==
  [th EXCEPT !.pc = Len(Program(th.op)) + 1, !.result = [kind |-> "raise", exc |-> exc],
             !.whole = FALSE]

concOthers ==
  <<scanVars, aggVars, transVars, schedVars, convVars, authVars, reportVars, now, called,
    evictions, recency, viewVars, aiVars>>

\* a request comes in and a thread calls the shared scanner object
ThreadStart(t) ==
  /\ threads[t].pc = 0
  /\ \E o \in ConcurrentOps, call \in ConcurrentCalls :
       /\ o # Aggregate => call = NoArgs
       /\ threads' = [threads EXCEPT ![t] = [IdleThread EXCEPT !.op = o, !.call = call, !.pc = 1]]
  /\ UNCHANGED <<concOthers, cache, bound>>

\* @cached: return cache[k], or go on to the body
ThreadLookup(t) ==
  /\ Step(threads[t]) = "lookup"
  /\ LET th == threads[t]
         got == CacheGetItem(cache, hashkey(th.call), now)
     IN  /\ cache' = got.cache
         /\ threads' = [threads EXCEPT ![t] =
              IF got.hit
              THEN [th EXCEPT !.pc = Len(Program(th.op)) + 1, !.hit = TRUE,
                              !.result = [kind |-> "return", exc |-> "none"],
                              !.value = got.value, !.whole = got.value.whole,
                              !.pre = Keys(cache)]
              ELSE [th EXCEPT !.pc = @ + 1, !.pre = Keys(cache)]]
  /\ UNCHANGED <<concOthers, bound>>

\* with self._connect() as gmp: the one connection object opens a socket and
\* binds it; the socket it held is dropped
ThreadEnter(t) ==
  /\ Step(threads[t]) = "enter"
  /\ bound' = [owner |-> t, open |-> TRUE, authed |-> FALSE]
  /\ threads' = [threads EXCEPT ![t] = Advance(@)]
  /\ UNCHANGED <<concOthers, cache>>

\* gmp.authenticate(...) on the socket the connection holds now
ThreadAuthenticate(t) ==
  /\ Step(threads[t]) = "authenticate"
  /\ IF bound.open
     THEN /\ bound' = [bound EXCEPT !.authed = TRUE]
          /\ threads' = [threads EXCEPT ![t] =
                           [Advance(@) EXCEPT !.foreign = @ \/ bound.owner # t]]
     ELSE /\ bound' = [bound EXCEPT !.open = FALSE]
          /\ threads' = [threads EXCEPT ![t] = Failed(@, TransportError.exc)]
  /\ UNCHANGED <<concOthers, cache>>

\* a remote call on the socket the connection holds now
ThreadCall(t) ==
  /\ Step(threads[t]) \in SimpleOps
  /\ LET th == threads[t]
         o == Step(th)
         r == IF bound.authed THEN Response(OkStatus(o), TRUE) ELSE Response("400", FALSE)
         h == IF bound.open THEN Handle(o, r) ELSE HandleTransport(o)
     IN  IF h.kind = "raise"
         THEN /\ bound' = [bound EXCEPT !.open = FALSE]
              /\ threads' = [threads EXCEPT ![t] = Failed(th, h.exc)]
         ELSE /\ bound' = bound
              /\ threads' = [threads EXCEPT ![t] =
                   [Advance(th) EXCEPT !.foreign = @ \/ bound.owner # t,
                                       !.whole = @ /\ r.status = OkStatus(o),
                                       !.value = IF th.op # Aggregate THEN NoValue
                                                 ELSE IF th.whole /\ r.status = OkStatus(o)
                                                 THEN Compute(FilterOf(th.call), now)
                                                 ELSE Partial(FilterOf(th.call), now)]]
  /\ UNCHANGED <<concOthers, cache>>

\* leaving a with block: the connection closes the socket it holds now
ThreadExit(t) ==
  /\ Step(threads[t]) = "exit"
  /\ bound' = [bound EXCEPT !.open = FALSE]
  /\ threads' = [threads EXCEPT ![t] = Advance(@)]
  /\ UNCHANGED <<concOthers, cache>>

\* @cached: cache[k] = v
ThreadStore(t) ==
  /\ Step(threads[t]) = "store"
  /\ cache' = CacheSetItem(cache, hashkey(threads[t].call), threads[t].value, now).cache
  /\ threads' = [threads EXCEPT ![t] = Advance(@)]
  /\ UNCHANGED <<concOthers, bound>>

\* both requests are answered
Join ==
  /\ \A t \in Threads : threads[t].pc # 0 /\ ThreadFinished(threads[t])
  /\ threads' = [t \in Threads |-> IdleThread]
  /\ bound' = Unbound
  /\ UNCHANGED <<concOthers, cache>>

ThreadNext ==
  \/ \E t \in Threads : ThreadStart(t)
  \/ \E t \in Threads : ThreadLookup(t)
  \/ \E t \in Threads : ThreadEnter(t)
  \/ \E t \in Threads : ThreadAuthenticate(t)
  \/ \E t \in Threads : ThreadCall(t)
  \/ \E t \in Threads : ThreadExit(t)
  \/ \E t \in Threads : ThreadStore(t)
  \/ Join

SpecThreads == Init /\ [][ThreadNext]_vars

\* ================================================ the aggregate and deletion
\* get_reports_with_tasks behind its cache and delete_report, on the reports
\* the engine stores. How the engine treats each remote call of one
\* computation is an input: a listing is given ("listed"), answered with a
\* failure status ("refused") or the channel breaks ("lost").
ViewReportIds == 1..MaxViewReports
ListingOutcomes == {"listed", "refused", "lost"}
TaskOutcomes == {"listed", "400", "refused", "lost"}

RECURSIVE InOrder(_)
\* the report elements of a listing, as the engine orders them
InOrder(S) ==
  IF S = {} THEN <<>>
  ELSE LET m == CHOOSE x \in S : \A y \in S : x <= y IN <<m>> \o InOrder(S \ {m})

Fetches(n) == [i \in 1..n |-> "get_report"]

\* The body of get_reports_with_tasks on the reports `held`: the status of
\* the get_reports response is not looked at, so a refused listing is a
\* listing without report elements; get_tasks raises on status 400 only;
\* get_report_by_id raises when its response holds no report element.
AggregateRun(held, listing, tasks, failing) ==
  LET ids == IF listing = "listed" THEN InOrder(held) ELSE <<>> IN
  CASE listing = "lost" ->
         [kind |-> "raise", exc |-> TransportError.exc, ids |-> <<>>, fetched |-> 0,
          calls |-> <<"get_reports">>]
    [] listing # "lost" /\ tasks = "lost" ->
         [kind |-> "raise", exc |-> TransportError.exc, ids |-> <<>>, fetched |-> 0,
          calls |-> <<"get_reports", "get_tasks">>]
    [] listing # "lost" /\ tasks = "400" ->
         [kind |-> "raise", exc |-> RaiseOn400(Response("400", FALSE), <<>>).exc,
          ids |-> <<>>, fetched |-> 0, calls |-> <<"get_reports", "get_tasks">>]
    [] listing # "lost" /\ tasks \in {"listed", "refused"} /\ failing \in 1..Len(ids) ->
         [kind |-> "raise", exc |-> RaiseIfMissing(Response("404", FALSE), <<>>).exc,
          ids |-> <<>>, fetched |-> failing,
          calls |-> <<"get_reports", "get_tasks">> \o Fetches(failing)]
    [] OTHER ->
         [kind |-> "return", exc |-> "none", ids |-> ids, fetched |-> Len(ids),
          calls |-> <<"get_reports", "get_tasks">> \o Fetches(Len(ids))]

viewOthers ==
  <<scanVars, aggVars, transVars, schedVars, targets, created, hosts, existing_targets,
    reply, authVars, served, called, evictions, recency, concVars, aiVars>>

\* a scan ends and the engine stores its report under a new id
ReportStored ==
  /\ view = NoView
  /\ \E id \in ViewReportIds \ (reports \cup deleted) : reports' = reports \cup {id}
  /\ UNCHANGED <<viewOthers, remote, cache, now, view, deleted>>

\* time passes
TimePasses ==
  /\ view = NoView /\ now < ttl
  /\ now' = now + 1
  /\ UNCHANGED <<viewOthers, remote, cache, reports, view, deleted>>

\* @cached(cache) def get_reports_with_tasks(self, filter_string='rows=-1'):
\* one call, from the lookup of the key to the return or the exception
GetReportsWithTasks ==
  /\ view = NoView
  /\ \E call \in ConcurrentCalls, listing \in ListingOutcomes, tasks \in TaskOutcomes,
        failing \in 0..MaxViewReports :
       LET k == hashkey(call)
           got == CacheGetItem(cache, k, now)
           run == AggregateRun(reports, listing, tasks, failing)
           set == CacheSetItem(got.cache, k, [ids |-> run.ids], now)
           asked == [NoView EXCEPT !.op = Aggregate, !.listing = listing, !.tasks = tasks,
                                   !.failing = failing]
       IN  /\ got.hit => listing = "listed" /\ tasks = "listed" /\ failing = 0
           /\ listing = "lost" => tasks = "listed"
           /\ failing # 0 => run.fetched = failing
           /\ IF got.hit
              THEN /\ cache' = got.cache
                   /\ view' = [NoView EXCEPT !.op = Aggregate, !.kind = "return", !.hit = TRUE,
                                             !.ids = got.value.ids]
                   /\ remote' = <<>>
              ELSE IF run.kind = "raise"
              THEN /\ cache' = got.cache
                   /\ view' = [asked EXCEPT !.kind = "raise", !.exc = run.exc,
                                            !.fetched = run.fetched]
                   /\ remote' = run.calls
              ELSE /\ cache' = set.cache
                   /\ view' = [asked EXCEPT !.kind = "return", !.ids = run.ids,
                                            !.fetched = run.fetched, !.stored = TRUE]
                   /\ remote' = run.calls
  /\ UNCHANGED <<viewOthers, now, reports, deleted>>

\* delete_report(report_id)
DeleteReport ==
  /\ view = NoView
  /\ \E id \in ViewReportIds, lost \in BOOLEAN :
       LET r == IF id \in reports THEN Response("200", TRUE) ELSE Response("404", FALSE)
           o == IF lost THEN HandleTransport("delete_report") ELSE Handle("delete_report", r)
       IN  /\ reports' = IF o.kind = "return" THEN reports \ {id} ELSE reports
           /\ deleted' = IF o.kind = "return" THEN deleted \cup {id} ELSE deleted
           /\ view' = [NoView EXCEPT !.op = "delete_report", !.kind = o.kind, !.exc = o.exc,
                                     !.id = id]
           /\ remote' = <<"delete_report">>
  /\ UNCHANGED <<viewOthers, cache, now>>

\* the caller has the result or the exception
ViewTaken ==
  /\ view # NoView
  /\ view' = NoView /\ remote' = <<>>
  /\ UNCHANGED <<viewOthers, cache, now, reports, deleted>>

ViewNext ==
  \/ ReportStored
  \/ TimePasses
  \/ GetReportsWithTasks
  \/ DeleteReport
  \/ ViewTaken

SpecView == Init /\ [][ViewNext]_vars

\* ============================================================ /ai/analyze_cve
\* The results of a request as the report routes hand them out: severity is
\* the text of the severity element ("" when the result had none) or is left
\* out; cve_numbers is a list or is left out (has_cves is then FALSE).
PostedSeverities == {Absent, "-1.0", "0.0", "7.2", ""}
CveLists ==
  {<<>>, <<"CVE-2020-0001">>, <<"CVE-2020-0001", "CVE-2021-0002">>, <<"unknown">>}
PostedResults ==
  {r \in [severity : PostedSeverities, has_cves : BOOLEAN, cve_numbers : CveLists] :
     ~r.has_cves => r.cve_numbers = <<>>}
PostedLists == UNION {[1..n -> PostedResults] : n \in 0..MaxPosted}

\* float(result.get('severity', 0)), in tenths
SeverityFloatRaises(v) == v # Absent /\ v # "-1.0" /\ ~IsFloat(v)
SeverityFloat(v) ==
  CASE v = Absent -> 0
    [] v = "-1.0" -> -10
    [] OTHER      -> ParseFloat(v)

\* cve_numbers = result.get('cve_numbers', []); if not cve_numbers: ["unknown"]
CvesOf(result) ==
  LET cve_numbers == IF result.has_cves THEN result.cve_numbers ELSE <<>> IN
  IF cve_numbers = <<>> THEN <<"unknown">> ELSE cve_numbers

\* try: model.generate_content(query) ... except Exception: an error entry.
\* failing holds the calls of the text model that raise, counted from 1.
AnswerEntry(cve, n, failing) ==
  [cve |-> cve, answer |-> IF n \in failing THEN "Error processing CVE" ELSE "text"]

RECURSIVE AnalyzeLoop(_, _, _, _)
\* for result in results: ...; an exception of float() is caught nowhere
AnalyzeLoop(results, i, built, failing) ==
  IF i > Len(results) THEN [reply |-> Reply(200, "responses"), responses |-> built]
  ELSE IF SeverityFloatRaises(results[i].severity)
  THEN [reply |-> Unhandled("ValueError"), responses |-> <<>>]
  ELSE IF SeverityFloat(results[i].severity) > 0
  THEN LET cves == CvesOf(results[i]) IN
       AnalyzeLoop(results, i + 1,
                   built \o [k \in 1..Len(cves) |->
                               AnswerEntry(cves[k], Len(built) + k, failing)],
                   failing)
  ELSE AnalyzeLoop(results, i + 1, built, failing)

aiOthers ==
  <<scanVars, aggVars, transVars, schedVars, convRest, authVars, reportVars, cacheVars,
    concVars, viewVars>>

\* POST /ai/analyze_cve, for a request token_required has let through
AnalyzeCve ==
  /\ reply.status = 0
  /\ \E results \in PostedLists, failing \in SUBSET (1..(2 * MaxPosted)) :
       LET done == AnalyzeLoop(results, 1, <<>>, failing) IN
       /\ \A n \in failing : n <= Len(done.responses)
       /\ posted' = results
       /\ responses' = done.responses
       /\ reply' = done.reply
  /\ UNCHANGED aiOthers

\* the reply is sent
AnalysisSent ==
  /\ reply.status # 0
  /\ reply' = Reply(0, "none")
  /\ posted' = <<>> /\ responses' = <<>>
  /\ UNCHANGED aiOthers

AiNext ==
  \/ AnalyzeCve
  \/ AnalysisSent

SpecAI == Init /\ [][AiNext]_vars

\* ================================================================ claims
Finished(o) == pc = "done" /\ outcome.op = o
Returned(o) == Finished(o) /\ outcome.kind = "return"
Raised(o)   == Finished(o) /\ outcome.kind = "raise"

NameOf(e) == FindText(e.name, "")
FirstIndex(listing, id) ==
  CHOOSE i \in 1..Len(listing) :
    listing[i].id = id /\ \A j \in 1..(i - 1) : listing[j].id # id
LaterNamed(listing, id) ==
  {j \in (FirstIndex(listing, id) + 1)..Len(listing) :
     listing[j].id = id /\ NameOf(listing[j]) # ""}
\* the entry the claim says is kept for an id
KeptIndex(listing, id) ==
  LET f == FirstIndex(listing, id) IN
  IF NameOf(listing[f]) # "" \/ LaterNamed(listing, id) = {} THEN f
  ELSE CHOOSE j \in LaterNamed(listing, id) : \A k \in LaterNamed(listing, id) : j <= k

ListingFields(rec) ==
  [id |-> rec.id, name |-> rec.name, creation_time |-> rec.creation_time,
   modification_time |-> rec.modification_time, vulns_count |-> rec.vulns_count,
   task_id |-> rec.task_id]

\* C1: the reports kept from a listing are one per distinct report id, each
\* built from the first entry of its id, or from the first later entry with a
\* name when that first entry has none; an id that has a named entry keeps a
\* name; and the list returned carries exactly these reports.
C1_Dedup ==
  /\ pc = "tasks" =>
       /\ {unique_reports[i].id : i \in 1..Len(unique_reports)}
            = {root[i].id : i \in 1..Len(root)}
       /\ \A i, j \in 1..Len(unique_reports) :
            unique_reports[i].id = unique_reports[j].id => i = j
       /\ \A i \in 1..Len(unique_reports) :
            /\ unique_reports[i]
                 = ReportData(root[KeptIndex(root, unique_reports[i].id)])
            /\ (\E j \in 1..Len(root) :
                  root[j].id = unique_reports[i].id /\ NameOf(root[j]) # "")
               => unique_reports[i].name # ""
  /\ Returned(Aggregate) =>
       /\ Len(outcome.value) = Len(unique_reports)
       /\ \A i \in 1..Len(unique_reports) :
            ListingFields(outcome.value[i]) = unique_reports[i]

\* a listing of three entries of one id, unnamed first, kept as the second
C1_Witness ==
  /\ pc = "tasks" /\ Len(root) = 3 /\ Len(unique_reports) = 1
  /\ \A i \in 1..3 : root[i].id = "r1"
  /\ root[1].name = Absent /\ root[2].name = "n1" /\ root[3].name = "n2"
  /\ unique_reports[1].name = "n1"

\* C2: the report appended last has for highest_severity the maximum of the
\* numeric severities of the results just fetched for it, 0 when there are
\* none; the list returned is the list so built.
C2_HighestSeverity ==
  /\ filtered_reports # <<>> =>
       LET last == filtered_reports[Len(filtered_reports)]
           rs   == report_details.results IN
       /\ last.id = report_details.id
       /\ rs = <<>> => last.highest_severity = 0
       /\ rs # <<>> =>
            /\ \E i \in 1..Len(rs) : ParseFloat(rs[i].severity) = last.highest_severity
            /\ \A i \in 1..Len(rs) : ParseFloat(rs[i].severity) <= last.highest_severity
  /\ Returned(Aggregate) => outcome.value = filtered_reports

\* returned: one report with 7.2 from severities 3.5 and 7.2, one with no results
C2_Witness ==
  /\ Returned(Aggregate) /\ Len(outcome.value) = 2
  /\ outcome.value[1].highest_severity = 0
  /\ outcome.value[2].highest_severity = 72
  /\ Len(report_details.results) = 2
  /\ report_details.results[1].severity = "3.5"
  /\ report_details.results[2].severity = "7.2"

\* C8: an operation that fails on an engine answer with a failure status has
\* that status and its status text in its error message.
C8_StatusInMessage ==
  (pc = "done" /\ outcome.kind = "raise" /\ outcome.status \in FailureStatuses)
    => /\ outcome.status \in Range(outcome.msg)
       /\ outcome.text \in Range(outcome.msg)

\* C9: an operation whose remote call was answered with a failure status
\* ends in a raised failure.
C9_NoSwallow ==
  (pc = "done" /\ outcome.status \in FailureStatuses) => outcome.kind = "raise"

ChannelSteps == {"connect", "authenticate", "disconnect"}

UnitOf(frequency) ==
  CASE frequency = "hourly"  -> "hour(s)"
    [] frequency = "daily"   -> "day(s)"
    [] frequency = "weekly"  -> "week(s)"
    [] frequency = "monthly" -> "month(s)"
    [] frequency = "yearly"  -> "year(s)"

RoundTripFrequencies == {"hourly", "daily", "weekly", "monthly", "yearly"}

\* C5: a schedule the create_schedule route built from a frequency among
\* hourly, daily, weekly, monthly, yearly and an interval >= 1 (with or
\* without a count) is listed by get_schedules with the period
\* "Every <interval> <unit>(s)", the unit being that of the frequency.
C5_RoundTrip ==
  listed # <<>> =>
    \A i \in 1..Len(listed) :
      LET rq == schedules[i].request IN
      (rq.frequency \in RoundTripFrequencies /\ rq.interval >= 1) =>
        listed[i].period = <<"Every", rq.interval, UnitOf(rq.frequency)>>

\* a weekly schedule of interval 2 was created and listed as "Every 2 week(s)"
C5_Witness ==
  /\ listed # <<>>
  /\ \E i \in 1..Len(listed) :
       /\ schedules[i].request.frequency = "weekly"
       /\ schedules[i].request.interval = 2
       /\ listed[i].period = <<"Every", 2, "week(s)">>

\* the period written in a calendar text's own recurrence rule
OwnPeriod(text) ==
  IF \A k \in 1..Len(text) : text[k].name # "RRULE" THEN NoPeriod
  ELSE LET rule == text[CHOOSE k \in 1..Len(text) : text[k].name = "RRULE"].value
           has(key) == \E j \in 1..Len(rule) : rule[j].key = key
           at(key) == rule[CHOOSE j \in 1..Len(rule) : rule[j].key = key].val
           n == IF has("INTERVAL")
                THEN CHOOSE m \in 1..(MaxInterval + 8) : ToString(m) = at("INTERVAL")
                ELSE 1
       IN  IF ~has("FREQ") THEN NoPeriod
           ELSE CASE at("FREQ") = "HOURLY"  -> <<"Every", n, "hour(s)">>
                  [] at("FREQ") = "DAILY"   -> <<"Every", n, "day(s)">>
                  [] at("FREQ") = "WEEKLY"  -> <<"Every", n, "week(s)">>
                  [] at("FREQ") = "MONTHLY" -> <<"Every", n, "month(s)">>
                  [] at("FREQ") = "YEARLY"  -> <<"Every", n, "year(s)">>
                  [] OTHER                  -> NoPeriod

\* C6: get_schedules returns one record per stored schedule, in the stored
\* order; a schedule whose calendar text is malformed has no period, and
\* every other schedule has the period of its own calendar text.
C6_MalformedKept ==
  listed # <<>> =>
    /\ Len(listed) = Len(schedules)
    /\ \A i \in 1..Len(listed) :
         /\ listed[i].id = schedules[i].id
         /\ schedules[i].icalendar \in MalformedTexts => listed[i].period = NoPeriod
         /\ schedules[i].icalendar \notin MalformedTexts =>
              listed[i].period = OwnPeriod(schedules[i].icalendar)

\* a listing with a malformed schedule before one that has a period
C6_Witness ==
  /\ Len(listed) = 2
  /\ schedules[1].icalendar \in MalformedTexts
  /\ listed[1].period = NoPeriod
  /\ listed[2].period # NoPeriod


\* --------------------------------------------------------------- translators
\* CVE-<4 digits>-<digit> begins at index i of s
CveBeginsAt(s, i) ==
  /\ i + 9 <= Len(s)
  /\ s[i] = "C" /\ s[i + 1] = "V" /\ s[i + 2] = "E" /\ s[i + 3] = "-"
  /\ \A k \in 4..7 : s[i + k] \in Digits
  /\ s[i + 8] = "-"
  /\ s[i + 9] \in Digits
\* the indices where an identifier begins (no identifier holds a "C" past its
\* first character, so no two of them overlap)
CveStarts(s) == {i \in 1..Len(s) : CveBeginsAt(s, i)}
\* the identifier that begins at i: its digits to the last one of the run
CveAt(s, i) ==
  SubSeq(s, i, CHOOSE j \in (i + 9)..Len(s) :
                 /\ \A k \in (i + 9)..j : s[k] \in Digits
                 /\ (j = Len(s) \/ s[j + 1] \notin Digits))
NthStart(s, n) == CHOOSE i \in CveStarts(s) : Cardinality({x \in CveStarts(s) : x < i}) = n - 1

InOrderNoDedup(rec) ==
  /\ Len(rec.cve_numbers) = Cardinality(CveStarts(rec.description))
  /\ \A n \in 1..Len(rec.cve_numbers) :
       rec.cve_numbers[n] = CveAt(rec.description, NthStart(rec.description, n))

TextFields(fn) ==
  CASE fn = "get_targets" ->
         {"name", "comment", "hosts", "exclude_hosts", "port_list",
          "creation_time", "modification_time"}
    [] fn = "get_alerts" ->
         {"name", "condition", "event", "method", "comment",
          "creation_time", "modification_time"}
    [] fn = "get_schedules" ->
         {"name", "comment", "timezone", "next_time", "last_time", "owner",
          "creation_time", "modification_time"}
    [] fn = "get_roles" -> {"name", "description", "creation_time", "modification_time"}
    [] fn = "get_users" -> {"name", "creation_time", "modification_time"}
    [] fn = "get_tasks" -> {"name", "status"}
    [] fn = "get_task" ->
         {"name", "comment", "creation_time", "modification_time", "owner",
          "status", "progress", "report_count"}
    [] fn \in {"get_reports", "get_report_by_id"} ->
         {"name", "creation_time", "modification_time", "scan_run_status",
          "vulns_count", "task_id"}
    [] fn = "result" -> {"host", "severity", "threat"}
    [] OTHER -> {}

\* C4: no field of a record a translator returns is None.
C4_NoNoneField ==
  \A f \in TextFields(translated.fn) : translated.rec[f] # NoneVal


\* ------------------------------------------------- convert_hosts_to_targets
ConvertReplied ==
  reply.body \in {"created_targets", "IP address is required for each host",
                  "AttributeError", "Target exists already"}
ExistingNames == {existing_targets[i].name : i \in 1..Len(existing_targets)}
NamesExisting == {i \in 1..Len(hosts) : TargetName(hosts[i]) \in ExistingNames}

\* C7: when a request to convert_hosts_to_targets whose hosts all have an ip
\* names a host whose target name is that of an existing target, no
\* create_target call is issued for that host, every host with another name
\* is processed, and the request completes successfully.
C7_SkipsExisting ==
  (/\ ConvertReplied
   /\ \A i \in 1..Len(hosts) : ~Falsy(hosts[i].ip)
   /\ NamesExisting # {}) =>
     /\ reply.status = 201
     /\ \A i \in NamesExisting :
          \A k \in 1..Len(created) : created[k].name # TargetName(hosts[i])
     /\ \A i \in 1..Len(hosts) :
          i \notin NamesExisting =>
            \E k \in 1..Len(created) : created[k].name = TargetName(hosts[i])


\* C11: a convert_hosts_to_targets request with a host that has no ip is
\* answered 400 and the handler has made no engine call before that: neither
\* the target listing nor a create_target call.
C11_RejectedBeforeRemote ==
  (ConvertReplied /\ \E i \in 1..Len(hosts) : Falsy(hosts[i].ip)) =>
    /\ reply.status = 400
    /\ remote = <<>>
    /\ created = <<>>


\* ------------------------------------------------- users and access control
ScannerRoutes == AdminRoutes \cup TokenRoutes
\* the token of the request names a user of the table who may use the route
Authorized ==
  /\ req.cred.kind = "valid"
  /\ \E u \in users :
       /\ u.id = req.cred.identity
       /\ req.route \in AdminRoutes => u.role = "UserRole.ADMIN"

\* C12 (as the code has it): the handler body of a mutating or administrative
\* scanner route runs only for a request whose token identifies an existing
\* user with role ADMIN, and that of every other scanner route only for a
\* request whose token identifies an existing user; any other request makes no
\* engine call, and is answered 403 when its token is valid and 401 or 422 by
\* the token check when it has no valid token.
C12_AccessControl ==
  req.route \in ScannerRoutes =>
    /\ handled.ran => Authorized
    /\ ~Authorized =>
         /\ ~handled.ran
         /\ remote = <<>>
         /\ reply.status = IF req.cred.kind = "valid" THEN 403
                           ELSE IF req.cred.kind = "invalid" THEN 422 ELSE 401

\* a regular user's valid token on an administrative route: 403, nothing run
C12_Witness ==
  /\ req.route = "create_target"
  /\ req.cred.kind = "valid"
  /\ \E u \in users : u.id = req.cred.identity /\ u.role = "UserRole.USER"
  /\ reply.status = 403
  /\ ~handled.ran

\* C12 (as stated): ... otherwise the request is answered 403 and no engine
\* call is made.
C12_Always403 ==
  req.route \in ScannerRoutes =>
    /\ handled.ran => Authorized
    /\ ~Authorized => (reply.status = 403 /\ remote = <<>>)

\* C19: every user made by /auth/signup has the role USER whatever the
\* payload held, and a user with the role ADMIN was made by /auth/create_admin
\* (or is the administrator put into the table by hand); create_admin makes a
\* user only for a requester who is an existing ADMIN.
C19_SignupNoAdmin ==
  /\ \A u \in users :
       /\ u.via = "signup" => u.role = "UserRole.USER"
       /\ u.role = "UserRole.ADMIN" => u.via \in {"create_admin", "seed"}
  /\ (req.route = "auth/create_admin" /\ reply.status = 201) =>
       /\ req.cred.kind = "valid"
       /\ \E u \in users : u.id = req.cred.identity /\ u.role = "UserRole.ADMIN"

\* a signup whose payload asked for the role ADMIN made a user
C19_Witness ==
  /\ req.route = "auth/signup"
  /\ req.role = "ADMIN"
  /\ reply.status = 201
  /\ \E u \in users : u.row = last_id /\ u.via = "signup" /\ u.role = "UserRole.USER"

\* the users made by signup with the e-mail address and password of the
\* request, not modified since
SignedUpAs == {u \in users : /\ u.via = "signup" /\ ~u.touched
                             /\ u.email = req.email /\ u.given = req.password}

\* C20: signin with the e-mail address and password of a successful signup,
\* the user not modified or deleted since, returns 200 with a token whose
\* identity is the user's id; signin with an unknown e-mail address returns
\* 401 and issues no token.
C20_SigninAccepts ==
  req.route = "auth/signin" =>
    /\ \A u \in SignedUpAs : reply.status = 200 /\ handled.token = u.id
    /\ (\A u \in users : u.email # req.email) => (reply.status = 401 /\ handled.token = 0)

\* C18: GET /get_report/<report_id> answers 200 with the report data when the
\* engine has the report and 404 with an error message when it cannot be
\* found, and /export_report/<report_id>/<format> answers the same 404 for a
\* report that does not exist.
C18_NotFoundIs404 ==
  served.route \in {"get_report", "export_report"} =>
    /\ (served.route = "get_report" /\ served.answer = "found") => reply.status = 200
    /\ served.answer = "missing" => reply.status = 404

\* the lookups by id, and the failure kind an ended operation belongs to
LookupOps == {"get_user", "get_report_by_id", "get_task"}
FailureKind(o) ==
  IF o.status = "none" THEN "transport"
  ELSE IF o.status \in FailureStatuses THEN "remote"
  ELSE "not_found"
\* the error types an engine-reported failure status and a broken channel
\* surface as
RemoteErrorTypes ==
  {Handle(o, Response(st, FALSE)).exc : o \in SimpleOps \ DictOps, st \in FailureStatuses}
TransportErrorTypes == {HandleTransport(o).exc : o \in SimpleOps}

\* C17: a lookup by id that finds no entity, an engine-reported failure status
\* and a broken channel fail with three different error types: no two of the
\* kinds surface as the same one.
C17_KindsDistinct ==
  outcome.kind = "raise" =>
    /\ (outcome.op \in LookupOps /\ FailureKind(outcome) = "not_found") =>
         outcome.exc \notin RemoteErrorTypes \cup TransportErrorTypes
    /\ FailureKind(outcome) = "remote" => outcome.exc \notin TransportErrorTypes

\* the filter a cache key stands for
FilterOfKey(k) == IF Len(k) = 1 THEN "rows=-1" ELSE k[Len(k)]
\* the ticks at which the key of the call that ended was stored and had not
\* run out of time when the call began, whether the entry was still there or
\* had been pushed out for room
StoredAt ==
  {e.expires - ttl : e \in {x \in Range(called.pre) \cup called.gone :
                              x.key = called.key /\ called.start < x.expires}}

\* C13: after get_reports_with_tasks completed for key k at time t, every
\* call with key k that starts before t + ttl returns the stored result and
\* makes no remote call; a call with key k at or after t + ttl finds the entry
\* expired, recomputes with remote calls and stores the result again. (As
\* stated: whatever happened to the cache in between.)
C13_HitWithinTtl ==
  called # NoCall =>
    /\ \A t \in StoredAt : called.hit /\ remote = <<>> /\ called.value.at = t
    /\ StoredAt = {} => (~called.hit /\ remote # <<>>)

\* C13 (amended): a call with key k returns the stored result without a
\* remote call exactly when the cache still holds an entry of k stored less
\* than ttl ago; an entry stored ttl or more ago, or pushed out for room in
\* between, is recomputed with remote calls and stored again for ttl; the
\* result always is one computed for the filter of k.
C13_HitUnlessEvicted ==
  /\ \A e \in Range(cache) : e.expires = e.value.at + ttl
  /\ called # NoCall =>
       LET i == Index(called.pre, called.key) IN
       /\ (i # 0 /\ called.start < called.pre[i].value.at + ttl) =>
            (called.hit /\ remote = <<>> /\ called.value = called.pre[i].value)
       /\ (i = 0 \/ (i # 0 /\ called.start >= called.pre[i].value.at + ttl)) =>
            /\ ~called.hit /\ remote # <<>>
            /\ ~called.raised =>
                 /\ called.value.at = called.start
                 /\ Entry(called.key, called.value, called.start + ttl) \in Range(cache)
       /\ ~called.raised => called.value.filter = FilterOfKey(called.key)

\* a call is answered from the cache on the last tick of its entry, and
\* another one recomputes an entry whose time has just run out
C13_Witness ==
  /\ called.hit
  /\ called.start = called.value.at + ttl - 1
  /\ Len(cache) = maxsize

C13_WitnessExpired ==
  /\ called # NoCall /\ ~called.hit /\ ~called.raised
  /\ \E e \in Range(called.pre) : e.key = called.key /\ called.start = e.value.at + ttl

\* the call that ended stored a new key while the cache was full of entries
\* whose time had not run out
StoredIntoFull ==
  /\ called # NoCall /\ ~called.hit /\ ~called.raised
  /\ called.key \notin Keys(called.pre)
  /\ Len(called.pre) = maxsize
  /\ \A e \in Range(called.pre) : called.start < e.expires

\* C14: the cache never holds more than maxsize entries, and a new key stored
\* while maxsize unexpired entries are present pushes out exactly one entry:
\* the one whose last read or write is the oldest.
C14_Bounded ==
  /\ Len(cache) <= maxsize
  /\ StoredIntoFull =>
       /\ Keys(called.pre) \ Keys(cache) = {called.oldest}
       /\ Keys(cache) = (Keys(called.pre) \ {called.oldest}) \cup {called.key}
       /\ Len(cache) = maxsize

\* the entry pushed out is not the one stored first: the one stored first
\* was read since
C14_Witness ==
  /\ StoredIntoFull
  /\ \E e \in Range(called.pre), f \in Range(called.pre) :
       e.key = called.oldest /\ f.key # called.oldest /\ f.value.at < e.value.at

\* the thread has remote calls to issue in the with block it is in
Issuing(th) == Step(th) \in SimpleOps \cup {"authenticate"}

\* C16: when two requests run operations of the shared scanner object at the
\* same time, no operation's release closes or replaces the connection on
\* which the other still has remote calls to issue, and each operation ends
\* as it does when run alone: it returns its whole result.
C16_Independent ==
  \A t \in Threads :
    /\ Issuing(threads[t]) => (bound.open /\ bound.owner = t)
    /\ (threads[t].pc # 0 /\ ThreadFinished(threads[t])) =>
         (threads[t].result.kind = "return" /\ threads[t].whole)

\* both requests called get_reports_with_tasks with the same key, both missed
\* the cache and both are answered
BothMissed ==
  /\ \A t \in Threads :
       /\ threads[t].op = Aggregate /\ ThreadFinished(threads[t]) /\ ~threads[t].hit
  /\ threads[1].call = threads[2].call

\* C15: when two requests compute the aggregate for the same key at the same
\* time and both miss the cache, both return a whole, correct result, the
\* cache ends with exactly one entry of the key holding one of the two
\* results, the entries of other keys are untouched and the cache holds no
\* more than maxsize entries.
C15_DuplicateHarmless ==
  BothMissed =>
    LET k == hashkey(threads[1].call) IN
    /\ \A t \in Threads : threads[t].result.kind = "return" /\ threads[t].whole
    /\ \E i \in 1..Len(cache) :
         cache[i].key = k /\ cache[i].value \in {threads[t].value : t \in Threads}
    /\ Len(SelectSeq(cache, LAMBDA e : e.key = k)) = 1
    /\ \A t \in Threads : threads[t].pre \ {k} \subseteq Keys(cache)
    /\ Len(cache) <= maxsize

\* the request being answered bears a token issued to a row that is in the
\* users table no more (the request that removes its own sender set aside)
BearsDeleted ==
  /\ req.route \notin {"none", "auth/delete_user"}
  /\ req.cred.kind = "valid"
  /\ \A u \in users : u.row # req.cred.row

\* C30: after /auth/delete_user removed user u, no handler body of a route
\* behind token_required or admin_required runs for a request that bears a
\* token issued to u; the request is answered 403.
C30_DeletedLosesAccess ==
  BearsDeleted => (~handled.ran /\ reply.status = 403)

\* C29: within one convert_hosts_to_targets request at most one create_target
\* call is made for each distinct derived target name.
C29_OncePerName ==
  \A i, j \in 1..Len(created) : created[i].name = created[j].name => i = j

\* the operation in progress has authenticated: its failure, if any, is one
\* of the remote call inside its try block
CallWasReached == \E i \in 1..Len(log) : log[i] = "authenticate"

\* C26: delete_target, delete_host, delete_task and modify_task fail with
\* ValueError in every failure case; when the remote call raises before any
\* response exists, the message has status "unknown" and the text of the
\* underlying error.
C26_FailsWithValueError ==
  \A o \in {"delete_target", "delete_host", "delete_task", "modify_task"} :
    (Raised(o) /\ CallWasReached) =>
      /\ outcome.exc = "ValueError"
      /\ outcome.status = "none" => outcome.msg = <<"Error", "unknown", TransportText>>

\* C24: get_reports_with_tasks tolerates missing optional elements: a report
\* without a vulns/count child and a result without a severity child do not
\* make the call raise (the count is then "0", the severity counts as 0).
C24_ToleratesMissing ==
  Raised(Aggregate) =>
    /\ outcome.exc # "AttributeError"
    /\ outcome.msg # <<"could not convert string to float: ''">>

\* C27: after delete_report(id) has completed successfully, no call of
\* get_reports_with_tasks, whatever its filter and whether the cache answers
\* it or not, returns a record with that id.
C27_DeletedNotShown ==
  (view.op = Aggregate /\ view.kind = "return") =>
    \A i \in 1..Len(view.ids) : view.ids[i] \notin deleted

\* a listing or a detail fetch of the computation that just ended failed
PartFailed ==
  /\ view.op = Aggregate /\ ~view.hit
  /\ view.listing # "listed" \/ view.tasks # "listed" \/ view.failing # 0

\* C28: when the report listing, the task listing or a detail fetch of an
\* aggregate call fails, the call raises, no further detail is fetched and
\* nothing is stored in the cache.
C28_FailureAborts ==
  PartFailed =>
    /\ view.kind = "raise"
    /\ ~view.stored
    /\ view.failing # 0 => view.fetched = view.failing

RECURSIVE Repeat(_, _)
Repeat(s, n) == IF n = 0 THEN <<>> ELSE s \o Repeat(s, n - 1)

\* what an aggregate call has done on the channel once n details are fetched:
\* every nested operation opens, uses and closes its own connection before
\* the next one starts
ChannelUse(n) ==
  <<"connect", "authenticate", "get_reports">>
    \o <<"connect", "authenticate", "get_tasks", "disconnect">>
    \o Repeat(<<"connect", "authenticate", "get_report", "disconnect">>, n)

\* C22: one uncached get_reports_with_tasks call issues exactly one report
\* listing, then exactly one task listing, then one detail fetch per
\* deduplicated report id, in the order of the deduplicated collection and
\* one at a time.
C22_CallSequence ==
  LET n == Len(filtered_reports) IN
  /\ (op = Aggregate /\ pc = "loop") =>
       /\ log = ChannelUse(n)
       /\ n <= Len(unique_reports)
       /\ \A i \in 1..n : filtered_reports[i].id = unique_reports[i].id
       /\ n > 0 => report_details.id = unique_reports[n].id
  /\ Returned(Aggregate) =>
       /\ log = ChannelUse(Len(unique_reports)) \o <<"disconnect">>
       /\ \A i \in 1..Len(unique_reports) : outcome.value[i].id = unique_reports[i].id
       /\ Len(outcome.value) = Len(unique_reports)
  /\ \A i, j \in 1..Len(unique_reports) :
       unique_reports[i].id = unique_reports[j].id => i = j

C22_Witness ==
  /\ Returned(Aggregate)
  /\ Len(outcome.value) = 2
  /\ log = ChannelUse(2) \o <<"disconnect">>

\* C23: the reports of the aggregate view stand in the order in which their
\* ids first occur in the raw listing; a report whose unnamed entry was
\* replaced by a later named one keeps the place of the first; the list
\* returned has the same order.
C23_FirstOccurrenceOrder ==
  /\ pc = "tasks" =>
       \A i, j \in 1..Len(unique_reports) :
         i < j => FirstIndex(root, unique_reports[i].id)
                    < FirstIndex(root, unique_reports[j].id)
  /\ Returned(Aggregate) =>
       [i \in 1..Len(outcome.value) |-> outcome.value[i].id]
         = [i \in 1..Len(unique_reports) |-> unique_reports[i].id]

\* r1 without a name, r2, then r1 with a name: r1 is kept named and first
C23_Witness ==
  /\ pc = "tasks" /\ Len(root) = 3
  /\ root[1].id = "r1" /\ root[1].name = Absent
  /\ root[2].id = "r2"
  /\ root[3].id = "r1" /\ root[3].name = "n1"
  /\ Len(unique_reports) = 2
  /\ unique_reports[1].id = "r1" /\ unique_reports[1].name = "n1"
  /\ unique_reports[2].id = "r2"

\* the unit named for each frequency that has a period
PeriodUnit ==
  [f \in {"DAILY", "WEEKLY", "MONTHLY", "HOURLY", "YEARLY"} |->
     CASE f = "DAILY" -> "day(s)" [] f = "WEEKLY" -> "week(s)" [] f = "MONTHLY" -> "month(s)"
       [] f = "HOURLY" -> "hour(s)" [] OTHER -> "year(s)"]

RuleLines(text) == {k \in 1..Len(text) : text[k].name = "RRULE"}
PartOf(rule, key) == rule[CHOOSE j \in 1..Len(rule) : rule[j].key = key].val
HasPart(rule, key) == \E j \in 1..Len(rule) : rule[j].key = key

\* C25: a listed schedule whose calendar text holds one event with a
\* recurrence rule has the period "Every N <unit>" for FREQ DAILY, WEEKLY,
\* MONTHLY, HOURLY or YEARLY, N being the rule's INTERVAL, or 1 without one;
\* with any other FREQ, with an event without rule and without calendar text
\* the period is null.
C25_PeriodDecoding ==
  \A i \in 1..Len(listed) :
    LET text == schedules[i].icalendar
        rules == RuleLines(text) IN
    /\ text = <<>> => listed[i].period = NoPeriod
    /\ (text \notin MalformedTexts /\ rules = {}) => listed[i].period = NoPeriod
    /\ (text \notin MalformedTexts /\ Cardinality(rules) = 1) =>
         LET rule == text[CHOOSE k \in rules : TRUE].value
             freq == IF HasPart(rule, "FREQ") THEN PartOf(rule, "FREQ") ELSE ""
             N == IF HasPart(rule, "INTERVAL")
                  THEN CHOOSE m \in 1..(MaxInterval + 8) : ToString(m) = PartOf(rule, "INTERVAL")
                  ELSE 1
         IN  IF freq \in DOMAIN PeriodUnit
             THEN listed[i].period = <<"Every", N, PeriodUnit[freq]>>
             ELSE listed[i].period = NoPeriod

\* a rule without INTERVAL listed as every 1 day, beside a rule of another
\* frequency listed without period
C25_Witness ==
  /\ Len(listed) = 2
  /\ \E i, j \in 1..2 :
       /\ RuleLines(schedules[i].icalendar) # {}
       /\ \A k \in RuleLines(schedules[i].icalendar) :
             ~HasPart(schedules[i].icalendar[k].value, "INTERVAL")
       /\ listed[i].period = <<"Every", 1, "day(s)">>
       /\ \E k \in RuleLines(schedules[j].icalendar) :
             PartOf(schedules[j].icalendar[k].value, "FREQ") = "MINUTELY"
       /\ listed[j].period = NoPeriod

RECURSIVE ClaimedCves(_)
\* the cve of every entry the claim expects, in order: those of the results
\* with a severity above 0, "unknown" standing for an empty or missing list
ClaimedCves(results) ==
  IF results = <<>> THEN <<>>
  ELSE LET r == Head(results)
           own == IF r.severity \notin {"3.5", "7.2"} THEN <<>>
                  ELSE IF ~r.has_cves \/ Len(r.cve_numbers) = 0 THEN <<"unknown">>
                  ELSE r.cve_numbers
       IN  own \o ClaimedCves(Tail(results))

\* C21: the response of /ai/analyze_cve holds, in input order, exactly one
\* entry per (result, CVE) pair of every posted result whose severity is above
\* 0, one entry "unknown" for such a result without CVE numbers, and no entry
\* for the other results; a failure of the text model for one CVE leaves an
\* error entry in its place and the other entries as they are.
C21_OneEntryPerPair ==
  reply.body \in {"responses", "ValueError"} =>
    /\ reply.status = 200
    /\ [k \in 1..Len(responses) |-> responses[k].cve] = ClaimedCves(posted)

====
